---- MODULE Spec2Model ----
(***************************************************************************)
(* SimpleCache (service.subtitles.titlovi/resources/lib/simple_cache.py):  *)
(* a two-tier cache.  The Process-Local Store is the set of window         *)
(* properties of Kodi's Window(10000); the Persistent Store is the table   *)
(* simplecache of an sqlite file.                                          *)
(*                                                                         *)
(* Time is counted in ticks, TicksPerSecond of them to a second, so that   *)
(* the truncation of _get_timestamp to whole seconds is visible.           *)
(* Strings that are summed by _get_checksum are sequences of code points.  *)
(* Python values and JSON texts are records [tag, items].                  *)
(***************************************************************************)
EXTENDS Integers, Sequences, FiniteSets, TLC

VARIABLES
    now,               \* datetime.datetime.now(), in ticks
    win,               \* Window(10000) properties of the cache keys: key -> text
    prop_busy,         \* property <prefix>internal.clean.busy ("" or "busy")
    prop_lastexec,     \* property <prefix>internal.clean.lastexecuted: <<>> or <<t>>
    db,                \* rows of table simplecache: [id, expires, data, checksum]
    enable_mem_cache,  \* self.enable_mem_cache
    db_path,           \* self._db_path is not None
    global_checksum,   \* self.global_checksum, <<>> for None or ""
    win_ok,            \* self._win is not None (and self._monitor is not None)
    exit,              \* self._exit
    abort,             \* self._monitor.abortRequested()
    db_fault,          \* the backing file cannot be used (locked beyond the retries, no connection)
    win_fault,         \* setProperty/getProperty/clearProperty of the window raise
    db_file,           \* simplecache.db as the probe of _get_database finds it
    file_held,         \* xbmcvfs.delete(dbfile) fails (the file is in use, or protected)
    last,              \* the last call of the facade and what it returned
    written,           \* history: per key, the entry of the last set since the last delete
    pc,                \* position of each thread running check_cleanup
    busy_tasks,        \* _busy_tasks, the list of the class: the names of the tasks in flight
    caller,            \* the add-on that calls the cache: its fields and its requests
    loc                \* locals of each thread running check_cleanup

vars == <<now, win, prop_busy, prop_lastexec, db, enable_mem_cache, db_path, global_checksum,
          win_ok, exit, abort, db_fault, win_fault, db_file, file_held, last,
          written, pc, loc, busy_tasks, caller>>

config == <<enable_mem_cache, db_path, global_checksum>>
env == <<abort, db_fault, win_fault>>
file == <<db_file, file_held>>
threads == <<pc, loc, busy_tasks, caller>>

(***************************************************************************)
(* Bounds of the model and constants of the program                        *)
(***************************************************************************)
TicksPerSecond == 2

MaxShortTicks == 1

MaxMktime == 5000000

AutoCleanHours == 4

DefaultExpirationDays == 14

\* _auto_clean_interval = datetime.timedelta(hours=4), in ticks
auto_clean_interval == AutoCleanHours * 3600 * TicksPerSecond

\* expiration=datetime.timedelta(days=14), the default of set, in ticks
DefaultExpiration == DefaultExpirationDays * 24 * 3600 * TicksPerSecond

\* a duration that takes now + d out of the range time.mktime accepts
HugeExpiration == (MaxMktime + 1) * TicksPerSecond

\* the clock advances by one tick, or by a little more than the clean interval
LongStep == auto_clean_interval + 1

MaxLongSteps == 1

Keys == {"k1", "k2"}

\* the durations handed to set as expiration (ticks)
Expirations == {-1, 0, 1, TicksPerSecond, DefaultExpiration, HugeExpiration}

\* checksum strings: "", "ab", "ba", "b"
Str_ab == <<97, 98>>

Str_ba == <<98, 97>>

Str_b == <<98>>

ChecksumStrings == {<<>>, Str_ab, Str_ba, Str_b}

SetChecksumStrings == {<<>>, Str_ab}

(***************************************************************************)
(* Python values and their JSON texts                                      *)
(***************************************************************************)
PyNone == [tag |-> "None", items |-> <<>>]

PyList1 == [tag |-> "list", items |-> <<1>>]

PyTuple1 == [tag |-> "tuple", items |-> <<1>>]

PyInt2 == [tag |-> "int", items |-> <<2>>]

PySet1 == [tag |-> "set", items |-> <<1>>]

\* the strings "a" and ""
PyStr_a == [tag |-> "str", items |-> <<97>>]

PyStrEmpty == [tag |-> "str", items |-> <<>>]

\* the payloads handed to set
Payloads == {PyList1, PyTuple1, PyInt2, PySet1}

\* the calls of set: (endpoint, data, checksum, expiration).  Key k1 is set with
\* every combination of two JSON payloads, the checksums and the expirations, and
\* with a tuple and a set payload; key k2 with one payload, no checksum, and an
\* expiration of one second or the default
SetCalls ==
    ({"k1"} \X {PyList1, PyInt2} \X SetChecksumStrings \X Expirations)
        \cup ({"k1"} \X {PyTuple1, PySet1} \X {<<>>} \X {DefaultExpiration})
        \cup ({"k2"} \X {PyInt2} \X {<<>>} \X {TicksPerSecond, DefaultExpiration})

TypeError == [tag |-> "TypeError", items |-> <<>>]

ValueError == [tag |-> "ValueError", items |-> <<>>]

\* json.dumps: lists and tuples both become arrays; a set is not serializable
json_dumps(v) ==
    CASE v.tag = "list" -> [tag |-> "array", items |-> v.items]
      [] v.tag = "tuple" -> [tag |-> "array", items |-> v.items]
      [] v.tag = "int" -> [tag |-> "number", items |-> v.items]
      [] v.tag = "str" -> [tag |-> "string", items |-> v.items]
      [] v.tag = "dict" -> [v EXCEPT !.tag = "object"]
      [] v.tag = "None" -> [tag |-> "null", items |-> <<>>]
      [] OTHER -> TypeError

\* json.loads: an array becomes a list; a text that is no JSON raises
json_loads(t) ==
    CASE t.tag = "array" -> [tag |-> "list", items |-> t.items]
      [] t.tag = "number" -> [tag |-> "int", items |-> t.items]
      [] t.tag = "string" -> [tag |-> "str", items |-> t.items]
      [] t.tag = "object" -> [t EXCEPT !.tag = "dict"]
      [] t.tag = "null" -> PyNone
      [] OTHER -> ValueError

(***************************************************************************)
(* Checksum Utility and Timestamp Codec                                    *)
(***************************************************************************)
RECURSIVE SumOrd(_)
\* reduce(lambda x, y: x + y, map(ord, calc_input))
SumOrd(s) == IF s = <<>> THEN 0 ELSE Head(s) + SumOrd(Tail(s))

\* "-"
Str_hyphen == <<45>>

\* mutant: the salt is put in front of the input without a separator
get_checksum_concat(stringinput) ==
    IF stringinput = <<>> /\ global_checksum = <<>>
    THEN 0
    ELSE SumOrd(global_checksum \o stringinput)

\* _get_checksum(stringinput): with a salt, calc_input is
\* f"{self.global_checksum}-{stringinput}"
get_checksum(stringinput) ==
    IF stringinput = <<>> /\ global_checksum = <<>>
    THEN 0
    ELSE IF global_checksum # <<>>
         THEN SumOrd(global_checksum \o Str_hyphen \o stringinput)
         ELSE SumOrd(stringinput)

\* mutant: every date is treated as out of range
get_timestamp_now(date_time, t) == t \div TicksPerSecond

\* _get_timestamp(date_time), called at clock value t: whole seconds, and the
\* current time when mktime overflows
get_timestamp(date_time, t) ==
    IF date_time \div TicksPerSecond > MaxMktime
    THEN t \div TicksPerSecond
    ELSE date_time \div TicksPerSecond

(***************************************************************************)
(* Window properties (Process-Local Store)                                 *)
(***************************************************************************)
EmptyText == [kind |-> "empty", expires |-> 0, data |-> [tag |-> "null", items |-> <<>>], checksum |-> 0]

\* a text that is no JSON
Garbage == [tag |-> "garbage", items |-> <<>>]

\* the kinds of text in a window property: none; json.dumps of (expires, data,
\* checksum); no JSON; JSON that is no sequence of three or more; a JSON list
\* of four whose first three are an entry
SlotKinds == {"empty", "json", "garbage", "short", "long"}

\* json.dumps((expires, data, checksum))
MemText(expires, data_json, checksum) ==
    [kind |-> "json", expires |-> expires, data |-> data_json, checksum |-> checksum]

\* _set_mem_cache: a failure of json.dumps or of setProperty is logged, not raised
set_mem_cache(w, endpoint, checksum, expires, data) ==
    IF json_dumps(data) = TypeError \/ win_fault
    THEN w
    ELSE [w EXCEPT ![endpoint] = MemText(expires, json_dumps(data), checksum)]

\* mutant: an entry that expires at the current second is still served
get_mem_cache_ge(w, endpoint, checksum, cur_time) ==
    IF win_fault \/ w[endpoint].kind = "empty"
    THEN [result |-> PyNone, win |-> w]
    ELSE IF w[endpoint].expires >= cur_time
            /\ (checksum = 0 \/ checksum = w[endpoint].checksum)
         THEN [result |-> json_loads(w[endpoint].data), win |-> w]
         ELSE [result |-> PyNone, win |-> w]

\* _get_mem_cache: [result, win]; a text that does not parse, or has not the
\* structure, is cleared
get_mem_cache(w, endpoint, checksum, cur_time) ==
    IF win_fault \/ w[endpoint].kind = "empty"
    THEN [result |-> PyNone, win |-> w]
    ELSE IF w[endpoint].kind \in {"garbage", "short"}
    THEN [result |-> PyNone, win |-> [w EXCEPT ![endpoint] = EmptyText]]
    ELSE IF w[endpoint].expires > cur_time
            /\ (checksum = 0 \/ checksum = w[endpoint].checksum)
         THEN [result |-> json_loads(w[endpoint].data), win |-> w]
         ELSE [result |-> PyNone, win |-> w]

(***************************************************************************)
(* Table simplecache (Persistent Store)                                    *)
(***************************************************************************)
\* states of simplecache.db at the probe SELECT id FROM simplecache LIMIT 1:
\* it answers; there is no file or no table; the file is no database; the file
\* is locked by another connection for longer than the timeout
FileStates == {"ok", "missing", "corrupt", "locked"}

\* mutant: no recreation, a failed probe ends without connection
probe_passes == db_file = "ok"

\* _get_database returns a connection: the probe passes, or the file is deleted
\* (or was not there) and the table is created anew
connects == db_file \in {"ok", "missing"} \/ ~file_held

\* the rows of the table once _get_database has returned
opened(d) == IF db_file = "ok" \/ ~connects THEN d ELSE {}

\* the table and the file after a call that gets as far as _get_database
\* (reached), or does not
Healed(reached, d) == IF reached THEN opened(d) ELSE d

FileAfter(reached) == IF reached /\ connects THEN "ok" ELSE db_file

\* _execute_sql runs the statement: a monitor, a db path, a connection, no exit
\* or abort request, and a backing file that answers within the retries
sql_runs == win_ok /\ db_path /\ connects /\ ~exit /\ ~abort /\ ~db_fault

Row(id, expires, data_json, checksum) ==
    [id |-> id, expires |-> expires, data |-> data_json, checksum |-> checksum]

RowsOf(d, id) == {r \in d : r.id = id}

\* mutant: INSERT without OR REPLACE on a table without the UNIQUE constraint
insert_only(d, row) == d \cup {row}

\* INSERT OR REPLACE INTO simplecache(id, expires, data, checksum), id UNIQUE
insert_or_replace(d, row) == (d \ RowsOf(d, row.id)) \cup {row}

\* mutant: DELETE without the WHERE clause
delete_all_rows(d, id) == {}

\* DELETE FROM simplecache WHERE id = ?
delete_row(d, id) == d \ RowsOf(d, id)

\* _set_db_cache
set_db_cache(d, endpoint, checksum, expires, data) ==
    IF ~db_path \/ json_dumps(data) = TypeError \/ ~sql_runs
    THEN d
    ELSE insert_or_replace(d, Row(endpoint, expires, json_dumps(data), checksum))

\* mutant: the checksum of the row is not compared
get_db_cache_nogate(w, d, endpoint, checksum, cur_time) ==
    IF ~db_path \/ ~sql_runs \/ RowsOf(d, endpoint) = {}
    THEN [result |-> PyNone, win |-> w]
    ELSE LET cache_data == CHOOSE r \in RowsOf(d, endpoint) : TRUE
         IN IF cache_data.expires > cur_time
            THEN [result |-> json_loads(cache_data.data),
                  win |-> IF enable_mem_cache /\ win_ok
                          THEN set_mem_cache(w, endpoint, cache_data.checksum,
                                             cache_data.expires, json_loads(cache_data.data))
                          ELSE w]
            ELSE [result |-> PyNone, win |-> w]

\* mutant: a hit is returned and not written to the window properties
get_db_cache_nopromote(w, d, endpoint, checksum, cur_time) ==
    IF ~db_path \/ ~sql_runs \/ RowsOf(d, endpoint) = {}
    THEN [result |-> PyNone, win |-> w]
    ELSE LET cache_data == CHOOSE r \in RowsOf(d, endpoint) : TRUE
         IN IF cache_data.expires > cur_time
               /\ (checksum = 0 \/ cache_data.checksum = checksum)
            THEN [result |-> json_loads(cache_data.data), win |-> w]
            ELSE [result |-> PyNone, win |-> w]

\* _get_db_cache: [result, win]; a hit is written to the window properties; on
\* a row that passes the tests and does not parse, self.delete(endpoint) clears
\* the window property
get_db_cache(w, d, endpoint, checksum, cur_time) ==
    IF ~db_path \/ ~sql_runs \/ RowsOf(d, endpoint) = {}
    THEN [result |-> PyNone, win |-> w]
    ELSE LET cache_data == CHOOSE r \in RowsOf(d, endpoint) : TRUE
         IN IF cache_data.expires > cur_time
               /\ (checksum = 0 \/ cache_data.checksum = checksum)
            THEN IF json_loads(cache_data.data) = ValueError
                 THEN [result |-> PyNone,
                       win |-> IF enable_mem_cache /\ ~win_fault
                               THEN [w EXCEPT ![endpoint] = EmptyText]
                               ELSE w]
                 ELSE
                 [result |-> json_loads(cache_data.data),
                  win |-> IF enable_mem_cache /\ win_ok
                          THEN set_mem_cache(w, endpoint, cache_data.checksum,
                                             cache_data.expires, json_loads(cache_data.data))
                          ELSE w]
            ELSE [result |-> PyNone, win |-> w]

(***************************************************************************)
(* Facade: get, set, delete, close                                         *)
(***************************************************************************)
NoKey == "-"

\* a call of the facade: the operation, its key, what it returned and the tiers
\* it consulted
Call(op, key, ret, path) == [op |-> op, key |-> key, ret |-> ret, path |-> path]

NoArgs(op) == Call(op, NoKey, PyNone, <<>>)

\* the entries the two tiers hold for a key
EntriesOf(k) ==
    {win[j] : j \in {i \in {k} : win[i].kind = "json"}}
        \cup {MemText(r.expires, r.data, r.checksum) : r \in RowsOf(db, k)}

Threads == {"t1", "t2"}

Idle == [t \in Threads |-> "idle"]

NoLocals ==
    [t \in Threads |-> [lastexec |-> <<>>, todo |-> {}, ids |-> {}, cur |-> 0,
                        ret |-> "idle", retries |-> 0, result |-> "none"]]

\* mutant: the table is consulted only when the memory cache is disabled
get_no_fallthrough(w, d, endpoint, checksum_str) ==
    LET checksum == get_checksum(checksum_str)
        cur_time == get_timestamp(now, now)
        m == get_mem_cache(w, endpoint, checksum, cur_time)
        r == get_db_cache(w, d, endpoint, checksum, cur_time)
    IN IF ~win_ok
       THEN [result |-> PyNone, win |-> w, path |-> <<>>]
       ELSE IF enable_mem_cache
            THEN [result |-> m.result, win |-> m.win, path |-> <<"mem">>]
            ELSE [result |-> r.result, win |-> r.win, path |-> <<"db">>]

\* mutant: the window properties are consulted whatever enable_mem_cache says
get_mem_always(w, d, endpoint, checksum_str) ==
    LET checksum == get_checksum(checksum_str)
        cur_time == get_timestamp(now, now)
        m == get_mem_cache(w, endpoint, checksum, cur_time)
        r == get_db_cache(m.win, d, endpoint, checksum, cur_time)
    IN IF ~win_ok
       THEN [result |-> PyNone, win |-> w, path |-> <<>>]
       ELSE IF m.result = PyNone
            THEN [result |-> r.result, win |-> r.win, path |-> <<"mem", "db">>]
            ELSE [result |-> m.result, win |-> m.win, path |-> <<"mem">>]

\* get(endpoint, checksum) on window properties w and table d: [result, win, path]
get(w, d, endpoint, checksum_str) ==
    LET checksum == get_checksum(checksum_str)
        cur_time == get_timestamp(now, now)
        m == IF enable_mem_cache
             THEN get_mem_cache(w, endpoint, checksum, cur_time)
             ELSE [result |-> PyNone, win |-> w]
        r == get_db_cache(m.win, d, endpoint, checksum, cur_time)
        first == IF enable_mem_cache THEN <<"mem">> ELSE <<>>
    IN IF ~win_ok
       THEN [result |-> PyNone, win |-> w, path |-> <<>>]
       ELSE IF m.result = PyNone
            THEN [result |-> r.result, win |-> r.win, path |-> first \o <<"db">>]
            ELSE [result |-> m.result, win |-> m.win, path |-> first]

\* get calls _get_db_cache, and so _get_database
get_reaches_db(w, endpoint, checksum_str) ==
    win_ok /\ db_path /\ get(w, {}, endpoint, checksum_str).path # <<"mem">>

\* _get_db_cache comes to self.delete(endpoint): the row is there, unexpired,
\* passes the checksum test, and json.loads of its data raises
get_purges(w, d, endpoint, checksum_str) ==
    /\ get_reaches_db(w, endpoint, checksum_str) /\ sql_runs
    /\ \E r \in RowsOf(d, endpoint) :
         /\ r.expires > get_timestamp(now, now)
         /\ get_checksum(checksum_str) = 0 \/ r.checksum = get_checksum(checksum_str)
         /\ json_loads(r.data) = ValueError

\* mutant: a row that does not parse is left where it is
db_of_get_kept(w, d, endpoint, checksum_str) == d

\* the table after get(endpoint, checksum) on window properties w and table d
db_of_get(w, d, endpoint, checksum_str) ==
    IF get_purges(w, d, endpoint, checksum_str) THEN delete_row(d, endpoint) ELSE d

\* mutant: a get that finds nothing valid removes the row of its key
Get_evicting(endpoint, checksum_str) ==
    LET reached == get_reaches_db(win, endpoint, checksum_str)
        g == get(win, Healed(reached, db), endpoint, checksum_str)
    IN /\ win' = g.win
       /\ db' = IF g.result = PyNone
                THEN delete_row(Healed(reached, db), endpoint)
                ELSE Healed(reached, db)
       /\ db_file' = FileAfter(reached)
       /\ last' = Call("get", endpoint, g.result, g.path)
       /\ UNCHANGED <<now, prop_busy, prop_lastexec, config, win_ok, exit, env,
                      file_held, written, threads>>

Get(endpoint, checksum_str) ==
    LET reached == get_reaches_db(win, endpoint, checksum_str)
        g == get(win, Healed(reached, db), endpoint, checksum_str)
    IN /\ win' = g.win
       /\ db' = db_of_get(win, Healed(reached, db), endpoint, checksum_str)
       /\ db_file' = FileAfter(reached)
       /\ last' = Call("get", endpoint, g.result, g.path)
       /\ UNCHANGED <<now, prop_busy, prop_lastexec, config, win_ok, exit, env,
                      file_held, written, threads>>

\* mutant: a failure of the window write ends the call before the table write
set_mem_failure_raises(w, d, endpoint, data, checksum_str, expiration) ==
    LET checksum_val == get_checksum(checksum_str)
        expires == get_timestamp(now + expiration, now)
    IN IF ~win_ok \/ (enable_mem_cache /\ win_fault)
       THEN [win |-> w, db |-> d]
       ELSE [win |-> IF enable_mem_cache /\ ~exit
                     THEN set_mem_cache(w, endpoint, checksum_val, expires, data)
                     ELSE w,
             db |-> IF db_path /\ ~exit
                    THEN set_db_cache(d, endpoint, checksum_val, expires, data)
                    ELSE d]

\* mutant: set writes whatever the exit flag says
set_after_exit(w, d, endpoint, data, checksum_str, expiration) ==
    LET checksum_val == get_checksum(checksum_str)
        expires == get_timestamp(now + expiration, now)
    IN IF ~win_ok
       THEN [win |-> w, db |-> d]
       ELSE [win |-> IF enable_mem_cache
                     THEN set_mem_cache(w, endpoint, checksum_val, expires, data)
                     ELSE w,
             db |-> IF db_path
                    THEN set_db_cache(d, endpoint, checksum_val, expires, data)
                    ELSE d]

\* set(endpoint, data, checksum, expiration) on window properties w and table d:
\* [win, db]
set(w, d, endpoint, data, checksum_str, expiration) ==
    LET checksum_val == get_checksum(checksum_str)
        expires == get_timestamp(now + expiration, now)
    IN IF ~win_ok
       THEN [win |-> w, db |-> d]
       ELSE [win |-> IF enable_mem_cache /\ ~exit
                     THEN set_mem_cache(w, endpoint, checksum_val, expires, data)
                     ELSE w,
             db |-> IF db_path /\ ~exit
                    THEN set_db_cache(d, endpoint, checksum_val, expires, data)
                    ELSE d]

\* set calls _execute_sql, and so _get_database: json.dumps comes first
set_reaches_db(data) ==
    win_ok /\ ~exit /\ db_path /\ json_dumps(data) # TypeError

Set(endpoint, data, checksum_str, expiration) ==
    LET reached == set_reaches_db(data)
        s == set(win, Healed(reached, db), endpoint, data, checksum_str, expiration)
    IN /\ win' = s.win
       /\ db' = s.db
       /\ db_file' = FileAfter(reached)
       /\ written' = IF win_ok /\ ~exit /\ json_dumps(data) # TypeError
                     THEN [written EXCEPT
                             ![endpoint] = MemText(get_timestamp(now + expiration, now),
                                                   json_dumps(data),
                                                   get_checksum(checksum_str))]
                     ELSE written
       /\ last' = Call("set", endpoint, PyNone,
                       (IF EntriesOf(endpoint) = {} THEN <<"new">> ELSE <<"replace">>)
                         \o (IF reached /\ db_file # "ok" /\ connects
                             THEN <<"recreated">> ELSE <<>>))
       /\ UNCHANGED <<now, prop_busy, prop_lastexec, config, win_ok, exit, env,
                      file_held, threads>>

\* mutant: only the window property is cleared
delete_mem_only(w, d, endpoint) ==
    IF ~win_ok
    THEN [win |-> w, db |-> d]
    ELSE [win |-> IF enable_mem_cache /\ ~win_fault
                  THEN [w EXCEPT ![endpoint] = EmptyText]
                  ELSE w,
          db |-> d]

\* delete(endpoint): [win, db]
delete(w, d, endpoint) ==
    IF ~win_ok
    THEN [win |-> w, db |-> d]
    ELSE [win |-> IF enable_mem_cache /\ ~win_fault
                  THEN [w EXCEPT ![endpoint] = EmptyText]
                  ELSE w,
          db |-> IF db_path /\ sql_runs THEN delete_row(d, endpoint) ELSE d]

\* delete calls _execute_sql, and so _get_database
delete_reaches_db == win_ok /\ db_path

Delete(endpoint) ==
    LET x == delete(win, Healed(delete_reaches_db, db), endpoint)
    IN /\ win' = x.win
       /\ db' = x.db
       /\ db_file' = FileAfter(delete_reaches_db)
       /\ written' = IF win_ok THEN [written EXCEPT ![endpoint] = EmptyText] ELSE written
       /\ last' = Call("delete", endpoint, PyNone,
                       IF EntriesOf(endpoint) = {} THEN <<"absent">> ELSE <<"present">>)
       /\ UNCHANGED <<now, prop_busy, prop_lastexec, config, win_ok, exit, env,
                      file_held, threads>>

\* close(): no task is in flight between two calls, so the wait ends at once
Close ==
    /\ exit' = TRUE
    /\ win_ok' = FALSE
    /\ last' = NoArgs("close")
    /\ UNCHANGED <<now, win, prop_busy, prop_lastexec, db, config, env, file, written, threads>>

(***************************************************************************)
(* Sweep/Cleanup Scheduler, run by one caller at a time                    *)
(***************************************************************************)
\* mutant: every enumerated row is deleted, expired or not
do_cleanup_all(w, d, lastexec) ==
    LET db_results == IF db_path /\ sql_runs THEN d ELSE {}
        ids_found_in_db == {r.id : r \in db_results}
    IN IF ~win_ok \/ exit \/ abort \/ (~win_fault /\ prop_busy # "")
       THEN [win |-> w, db |-> d, lastexec |-> lastexec]
       ELSE [win |-> IF win_fault THEN w
                     ELSE [k \in Keys |-> IF k \in ids_found_in_db THEN EmptyText ELSE w[k]],
             db |-> d \ db_results,
             lastexec |-> IF win_fault THEN lastexec ELSE <<now>>]

\* mutant: the sweep leaves the window properties alone
do_cleanup_keep_mem(w, d, lastexec) ==
    LET cur_timestamp == get_timestamp(now, now)
        db_results == IF db_path /\ sql_runs THEN d ELSE {}
    IN IF ~win_ok \/ exit \/ abort \/ (~win_fault /\ prop_busy # "")
       THEN [win |-> w, db |-> d, lastexec |-> lastexec]
       ELSE [win |-> w,
             db |-> d \ {r \in db_results : r.expires < cur_timestamp},
             lastexec |-> IF win_fault THEN lastexec ELSE <<now>>]

\* _do_cleanup run to its end without interruption: [win, db, lastexec]
do_cleanup(w, d, lastexec) ==
    LET cur_timestamp == get_timestamp(now, now)
        db_results == IF db_path /\ sql_runs THEN d ELSE {}
        ids_found_in_db == {r.id : r \in db_results}
    IN IF ~win_ok \/ exit \/ abort \/ (~win_fault /\ prop_busy # "")
       THEN [win |-> w, db |-> d, lastexec |-> lastexec]
       ELSE [win |-> IF win_fault THEN w
                     ELSE [k \in Keys |-> IF k \in ids_found_in_db THEN EmptyText ELSE w[k]],
             db |-> d \ {r \in db_results : r.expires < cur_timestamp},
             lastexec |-> IF win_fault THEN lastexec ELSE <<now>>]

\* check_cleanup(): a sweep is due when none is recorded or the interval has elapsed
needs_cleanup(lastexec) ==
    \/ lastexec = <<>>
    \/ lastexec # <<>> /\ lastexec[1] + auto_clean_interval < now

\* the call of check_cleanup gets as far as sweeping
sweeps == win_ok /\ ~win_fault /\ needs_cleanup(prop_lastexec)
          /\ ~exit /\ ~abort /\ prop_busy = ""

check_cleanup(w, d, lastexec) ==
    IF ~win_ok \/ win_fault
    THEN [win |-> w, db |-> d, lastexec |-> lastexec]
    ELSE IF needs_cleanup(lastexec)
         THEN do_cleanup(w, d, IF lastexec = <<>> THEN <<now>> ELSE lastexec)
         ELSE [win |-> w, db |-> d, lastexec |-> lastexec]

\* the sweep calls _execute_sql, and so _get_database
cleanup_reaches_db == sweeps /\ db_path

CheckCleanup ==
    LET x == check_cleanup(win, Healed(cleanup_reaches_db, db), prop_lastexec)
    IN /\ win' = x.win
       /\ db' = x.db
       /\ db_file' = FileAfter(cleanup_reaches_db)
       /\ prop_lastexec' = x.lastexec
       /\ last' = Call("check_cleanup", NoKey, PyNone, IF sweeps THEN <<"sweep">> ELSE <<>>)
       /\ UNCHANGED <<now, prop_busy, config, win_ok, exit, env, file_held, written,
                      threads>>

\* the wall clock advances: by one tick, at most MaxShortTicks times between two
\* long steps, or by LongStep, at most MaxLongSteps times
Tick(dt) ==
    /\ \/ dt = 1 /\ now % LongStep < MaxShortTicks
       \/ dt = LongStep /\ now \div LongStep < MaxLongSteps
    /\ now' = now + dt
    /\ last' = NoArgs("tick")
    /\ UNCHANGED <<win, prop_busy, prop_lastexec, db, config, win_ok, exit, env, file,
                   written, threads>>

(***************************************************************************)
(* The state after __init__, on an empty store                             *)
(***************************************************************************)
\* the state after construction, for the keys the callers use and a caller c
InitOn(keys, c) ==
    /\ now = 0
    /\ win = [k \in keys |-> EmptyText]
    /\ prop_busy = ""
    /\ win_ok \in BOOLEAN
    /\ enable_mem_cache \in BOOLEAN
    /\ db_path \in BOOLEAN
    /\ global_checksum = <<>>
    /\ prop_lastexec = IF win_ok THEN <<0>> ELSE <<>>
    /\ db = {}
    /\ exit = FALSE
    /\ abort = FALSE
    /\ db_fault = FALSE
    /\ win_fault = FALSE
    /\ db_file = "ok"
    /\ file_held = FALSE
    /\ last = NoArgs("init")
    /\ written = [k \in keys |-> EmptyText]
    /\ pc = Idle
    /\ loc = NoLocals
    /\ busy_tasks = <<>>
    /\ caller = c

\* a caller that only calls the cache
NoCaller == [name |-> "none"]

Init == InitOn(Keys, NoCaller)

\* calls made one after the other on a store that works
Next ==
    \/ \E k \in Keys, c \in ChecksumStrings : Get(k, c)
    \/ \E a \in SetCalls : Set(a[1], a[2], a[3], a[4])
    \/ \E k \in Keys : Delete(k)
    \/ CheckCleanup
    \/ Close
    \/ \E dt \in {1, LongStep} : Tick(dt)

Spec == Init /\ [][Next]_vars

(***************************************************************************)
(* Exceptions: what each call raises to its caller                         *)
(***************************************************************************)
NoExc == "none"

Exceptions == {"TypeError", "ValueError", "OperationalError", "RuntimeError"}

\* try: ... except <handled>: the exception that leaves the statement
Caught(exc, handled) == IF exc \in handled THEN NoExc ELSE exc

RECURSIVE FirstExc(_)
\* statements in sequence: the first exception raised ends the sequence
FirstExc(excs) ==
    IF excs = <<>> THEN NoExc
    ELSE IF Head(excs) # NoExc THEN Head(excs) ELSE FirstExc(Tail(excs))

\* json.dumps(data) raises TypeError for a payload that is not serializable
json_dumps_exc(data) == IF json_dumps(data) = TypeError THEN "TypeError" ELSE NoExc

\* getProperty, setProperty, clearProperty of the window
window_exc == IF win_fault THEN "RuntimeError" ELSE NoExc

\* _database.execute on a file that cannot be used
execute_exc == IF db_fault THEN "OperationalError" ELSE NoExc

\* the probe of _get_database on a file that does not answer
probe_exc == IF db_file = "ok" THEN NoExc ELSE "OperationalError"

\* connect and CREATE TABLE after the file could not be deleted
recreate_exc == IF connects THEN NoExc ELSE "OperationalError"

\* _get_database: except Exception around the probe, and in that handler
\* except Exception around the recreation
get_database_exc ==
    FirstExc(<<Caught(probe_exc, Exceptions),
               IF probe_exc # NoExc THEN Caught(recreate_exc, Exceptions) ELSE NoExc>>)

\* _execute_sql: OperationalError is retried or logged, any other exception is
\* logged; the wrapper returns None
execute_sql_exc ==
    IF win_ok /\ db_path
    THEN Caught(FirstExc(<<get_database_exc,
                           Caught(Caught(execute_exc, {"OperationalError"}), Exceptions)>>),
                Exceptions)
    ELSE NoExc

\* _get_mem_cache: except Exception around the property read and the parsing
get_mem_cache_exc == Caught(window_exc, Exceptions)

\* mutant: no handler around json.dumps and setProperty
set_mem_cache_exc_uncaught(data) == FirstExc(<<json_dumps_exc(data), window_exc>>)

\* _set_mem_cache: except Exception around json.dumps and setProperty
set_mem_cache_exc(data) == Caught(FirstExc(<<json_dumps_exc(data), window_exc>>), Exceptions)

\* _get_db_cache: except Exception around the query
get_db_cache_exc == IF db_path THEN Caught(execute_sql_exc, Exceptions) ELSE NoExc

\* _set_db_cache: except Exception around json.dumps and the statement
set_db_cache_exc(data) ==
    IF db_path
    THEN Caught(FirstExc(<<json_dumps_exc(data), execute_sql_exc>>), Exceptions)
    ELSE NoExc

\* get: no handler of its own
get_exc ==
    IF ~win_ok THEN NoExc
    ELSE FirstExc(<<IF enable_mem_cache THEN get_mem_cache_exc ELSE NoExc,
                    get_db_cache_exc>>)

\* set: try ... finally, which handles nothing
set_exc(data) ==
    IF ~win_ok THEN NoExc
    ELSE FirstExc(<<IF enable_mem_cache /\ ~exit THEN set_mem_cache_exc(data) ELSE NoExc,
                    IF db_path /\ ~exit THEN set_db_cache_exc(data) ELSE NoExc>>)

\* delete: except Exception around clearProperty and around the statement
delete_exc ==
    IF ~win_ok THEN NoExc
    ELSE FirstExc(<<IF enable_mem_cache THEN Caught(window_exc, Exceptions) ELSE NoExc,
                    IF db_path THEN Caught(execute_sql_exc, Exceptions) ELSE NoExc>>)

(***************************************************************************)
(* Calls on a store that may fail                                          *)
(***************************************************************************)
\* the backing file becomes unusable (locked, no connection), or usable again
DbFaultChanges ==
    /\ db_fault' = ~db_fault
    /\ last' = NoArgs("env")
    /\ UNCHANGED <<now, win, prop_busy, prop_lastexec, db, config, win_ok, exit,
                   abort, win_fault, file, written, threads>>

\* the window starts, or stops, raising on property access
WinFaultChanges ==
    /\ win_fault' = ~win_fault
    /\ last' = NoArgs("env")
    /\ UNCHANGED <<now, win, prop_busy, prop_lastexec, db, config, win_ok, exit,
                   abort, db_fault, file, written, threads>>

SetCallsFault ==
    {"k1"} \X {PyList1, PyInt2, PySet1} \X {<<>>} \X {TicksPerSecond, DefaultExpiration}

NextFault ==
    \/ Get("k1", <<>>)
    \/ \E a \in SetCallsFault : Set(a[1], a[2], a[3], a[4])
    \/ Delete("k1")
    \/ CheckCleanup
    \/ Tick(LongStep)
    \/ DbFaultChanges
    \/ WinFaultChanges

SpecFault == Init /\ [][NextFault]_vars

(***************************************************************************)
(* Calls on a backing file that is lost, damaged or locked by others       *)
(***************************************************************************)
\* another connection takes the lock of the file and keeps it beyond the timeout
FileLocked ==
    /\ db_file = "ok"
    /\ db_file' = "locked"
    /\ last' = NoArgs("env")
    /\ UNCHANGED <<now, win, prop_busy, prop_lastexec, db, config, win_ok, exit, env,
                   file_held, written, threads>>

\* the other connection releases the lock
LockReleased ==
    /\ db_file = "locked"
    /\ db_file' = "ok"
    /\ last' = NoArgs("env")
    /\ UNCHANGED <<now, win, prop_busy, prop_lastexec, db, config, win_ok, exit, env,
                   file_held, written, threads>>

\* simplecache.db is removed: its rows are gone
FileLost ==
    /\ db_file' = "missing"
    /\ db' = {}
    /\ last' = NoArgs("env")
    /\ UNCHANGED <<now, win, prop_busy, prop_lastexec, config, win_ok, exit, env,
                   file_held, written, threads>>

\* simplecache.db is truncated or overwritten: it is no database any more
FileCorrupted ==
    /\ db_file' = "corrupt"
    /\ last' = NoArgs("env")
    /\ UNCHANGED <<now, win, prop_busy, prop_lastexec, db, config, win_ok, exit, env,
                   file_held, written, threads>>

\* the file becomes, or stops being, one that xbmcvfs.delete cannot delete
FileHeldChanges ==
    /\ file_held' = ~file_held
    /\ last' = NoArgs("env")
    /\ UNCHANGED <<now, win, prop_busy, prop_lastexec, db, config, win_ok, exit, env,
                   db_file, written, threads>>

SetCallsHeal ==
    {"k1", "k2"} \X {PyInt2} \X {<<>>} \X {DefaultExpiration}

NextHeal ==
    \/ \E k \in Keys : Get(k, <<>>)
    \/ \E a \in SetCallsHeal : Set(a[1], a[2], a[3], a[4])
    \/ \E k \in Keys : Delete(k)
    \/ FileLocked
    \/ LockReleased
    \/ FileLost
    \/ FileCorrupted
    \/ FileHeldChanges

SpecHeal == Init /\ [][NextHeal]_vars

(***************************************************************************)
(* check_cleanup run by several threads on the same window and table      *)
(***************************************************************************)
Goto(t, label) == pc' = [pc EXCEPT ![t] = label] /\ UNCHANGED <<busy_tasks, caller>>

\* a step that appends to _busy_tasks or removes from it
GotoTask(t, label, tasks) ==
    pc' = [pc EXCEPT ![t] = label] /\ busy_tasks' = tasks /\ UNCHANGED caller

\* list.remove(name) under "if name in list": the first occurrence goes
RECURSIVE list_remove(_, _)
list_remove(list, name) ==
    IF list = <<>> THEN <<>>
    ELSE IF Head(list) = name THEN Tail(list)
    ELSE <<Head(list)>> \o list_remove(Tail(list), name)

\* f"set.{endpoint}" and f"cleanup.{self._mem_cache_prefix}"
set_task_name == "set.k1"
cleanup_task_name == "cleanup.simplecache"


\* __init__, up to the call self.check_cleanup(): the window and the monitor are
\* there and the property test is done
Construct(t) ==
    /\ pc[t] = "idle"
    /\ win_ok
    /\ Goto(t, "init_cc")
    /\ UNCHANGED <<now, win, prop_busy, prop_lastexec, db, config, win_ok, exit, env,
                   file, last, written, loc>>

\* __init__ after check_cleanup has returned: log "Initialized" and return
CtorReturn(t) ==
    /\ pc[t] = "init_ret"
    /\ loc' = [loc EXCEPT ![t].ret = "idle"]
    /\ Goto(t, "idle")
    /\ UNCHANGED <<now, win, prop_busy, prop_lastexec, db, config, win_ok, exit, env,
                   file, last, written>>

\* the host restarts: the properties of Window(10000) are gone, the file stays
HostRestart ==
    /\ pc = Idle
    /\ win_ok
    /\ win' = [k \in Keys |-> EmptyText]
    /\ prop_busy' = ""
    /\ prop_lastexec' = <<>>
    /\ last' = NoArgs("env")
    /\ UNCHANGED <<now, db, config, win_ok, exit, env, file, written, threads>>

\* check_cleanup: cur_time = now(); lastexecuted_repr = getProperty(prop_lastexec)
CcRead(t) ==
    /\ pc[t] \in {"idle", "init_cc"}
    /\ win_ok
    /\ loc' = [loc EXCEPT ![t].lastexec = prop_lastexec, ![t].cur = now,
                          ![t].ret = IF pc[t] = "init_cc" THEN "init_ret" ELSE "idle"]
    /\ Goto(t, "cc_decide")
    /\ UNCHANGED <<now, win, prop_busy, prop_lastexec, db, config, win_ok, exit, env, file,
                   last, written>>

\* mutant: check_cleanup sweeps whatever time is recorded
CcDecide_always(t) ==
    /\ pc[t] = "cc_decide"
    /\ prop_lastexec' = IF loc[t].lastexec = <<>> THEN <<loc[t].cur>> ELSE prop_lastexec
    /\ IF exit \/ abort THEN Goto(t, loc[t].ret) ELSE Goto(t, "dc_check")
    /\ UNCHANGED <<now, win, prop_busy, db, config, win_ok, exit, env, file, last, written, loc>>

\* check_cleanup: record the time when none is recorded; sweep when due, and
\* then _do_cleanup returns at once on exit or abort
CcDecide(t) ==
    /\ pc[t] = "cc_decide"
    /\ prop_lastexec' = IF loc[t].lastexec = <<>> THEN <<loc[t].cur>> ELSE prop_lastexec
    /\ IF loc[t].lastexec = <<>>
          \/ (loc[t].lastexec # <<>> /\ loc[t].lastexec[1] + auto_clean_interval < loc[t].cur)
       THEN IF exit \/ abort THEN Goto(t, loc[t].ret) ELSE Goto(t, "dc_check")
       ELSE Goto(t, loc[t].ret)
    /\ UNCHANGED <<now, win, prop_busy, db, config, win_ok, exit, env, file, last, written, loc>>

\* a property access of the sweep raises: the window fails, or close has
\* released it (self._win is None)
win_fails == win_fault \/ ~win_ok

\* _do_cleanup: if getProperty(prop_busy): return; a failed read is passed over
DcCheck(t) ==
    /\ pc[t] = "dc_check"
    /\ IF ~win_fails /\ prop_busy # ""
       THEN Goto(t, loc[t].ret)
       ELSE GotoTask(t, "dc_set", Append(busy_tasks, cleanup_task_name))
    /\ UNCHANGED <<now, win, prop_busy, prop_lastexec, db, config, win_ok, exit, env, file,
                   last, written, loc>>

\* _do_cleanup: setProperty(prop_busy, "busy"); cur_time = now()
DcSetBusy(t) ==
    /\ pc[t] = "dc_set"
    /\ prop_busy' = IF win_fails THEN prop_busy ELSE "busy"
    /\ loc' = [loc EXCEPT ![t].cur = now]
    /\ Goto(t, "dc_select")
    /\ UNCHANGED <<now, win, prop_lastexec, db, config, win_ok, exit, env, file, last, written>>

\* _do_cleanup: SELECT id, expires FROM simplecache; fetchall()
DcSelect(t) ==
    /\ pc[t] = "dc_select"
    /\ loc' = [loc EXCEPT ![t].todo = IF db_path /\ sql_runs THEN opened(db) ELSE {},
                          ![t].ids = {}]
    /\ db' = Healed(win_ok /\ db_path, db)
    /\ db_file' = FileAfter(win_ok /\ db_path)
    /\ Goto(t, IF db_path /\ sql_runs THEN "dc_row" ELSE "dc_mem")
    /\ UNCHANGED <<now, win, prop_busy, prop_lastexec, config, win_ok, exit, env,
                   file_held, last, written>>

\* mutant: the loop does not look at the flags and deletes without asking
DcRow_unchecked(t) ==
    /\ pc[t] = "dc_row"
    /\ IF loc[t].todo = {}
       THEN /\ Goto(t, "dc_mem")
            /\ UNCHANGED <<db, db_file, loc>>
       ELSE \E r \in loc[t].todo :
              /\ loc' = [loc EXCEPT ![t].todo = loc[t].todo \ {r},
                                    ![t].ids = loc[t].ids \cup {r.id}]
              /\ db' = IF r.expires < get_timestamp(loc[t].cur, loc[t].cur)
                       THEN delete_row(db, r.id)
                       ELSE db
              /\ UNCHANGED <<pc, busy_tasks, caller, db_file>>
    /\ UNCHANGED <<now, win, prop_busy, prop_lastexec, config, win_ok, exit, env,
                   file_held, last, written>>

\* _do_cleanup: one turn of the loop over the fetched rows, then VACUUM; on exit
\* or abort the row at hand is left and the sweep returns through its finally
DcRow(t) ==
    /\ pc[t] = "dc_row"
    /\ IF loc[t].todo = {}
       THEN /\ Goto(t, "dc_mem")
            /\ db' = Healed(win_ok /\ db_path, db)
            /\ db_file' = FileAfter(win_ok /\ db_path)
            /\ UNCHANGED loc
       ELSE \E r \in loc[t].todo :
              IF exit \/ abort
              THEN /\ loc' = [loc EXCEPT ![t].ids = loc[t].ids \cup {r.id}]
                   /\ Goto(t, "dc_finally")
                   /\ UNCHANGED <<db, db_file>>
              ELSE /\ loc' = [loc EXCEPT ![t].todo = loc[t].todo \ {r},
                                         ![t].ids = loc[t].ids \cup {r.id}]
                   /\ UNCHANGED <<pc, busy_tasks, caller>>
                   /\ IF r.expires < get_timestamp(loc[t].cur, loc[t].cur)
                      THEN /\ db' = IF sql_runs
                                    THEN delete_row(opened(db), r.id)
                                    ELSE Healed(win_ok /\ db_path, db)
                           /\ db_file' = FileAfter(win_ok /\ db_path)
                      ELSE UNCHANGED <<db, db_file>>
    /\ UNCHANGED <<now, win, prop_busy, prop_lastexec, config, win_ok, exit, env,
                   file_held, last, written>>

\* _do_cleanup: one turn of the loop clearing the window properties of the ids
DcMem(t) ==
    /\ pc[t] = "dc_mem"
    /\ IF loc[t].ids = {} \/ exit \/ abort
       THEN /\ Goto(t, "dc_last")
            /\ UNCHANGED <<win, loc>>
       ELSE \E id \in loc[t].ids :
              /\ win' = IF win_fails THEN win ELSE [win EXCEPT ![id] = EmptyText]
              /\ loc' = [loc EXCEPT ![t].ids = loc[t].ids \ {id}]
              /\ UNCHANGED <<pc, busy_tasks, caller>>
    /\ UNCHANGED <<now, prop_busy, prop_lastexec, db, config, win_ok, exit, env, file,
                   last, written>>

\* _do_cleanup: setProperty(prop_lastexec, repr(cur_time))
DcLast(t) ==
    /\ pc[t] = "dc_last"
    /\ prop_lastexec' = IF win_fails THEN prop_lastexec ELSE <<loc[t].cur>>
    /\ Goto(t, "dc_finally")
    /\ UNCHANGED <<now, win, prop_busy, db, config, win_ok, exit, env, file, last, written, loc>>

\* mutant: the finally does not clear the marker
DcFinally_keep(t) ==
    /\ pc[t] = "dc_finally"
    /\ loc' = [loc EXCEPT ![t] = NoLocals[t]]
    /\ GotoTask(t, loc[t].ret, list_remove(busy_tasks, cleanup_task_name))
    /\ UNCHANGED <<now, win, prop_busy, prop_lastexec, db, config, win_ok, exit, env, file,
                   last, written>>

\* _do_cleanup, finally: clearProperty(prop_busy)
DcFinally(t) ==
    /\ pc[t] = "dc_finally"
    /\ prop_busy' = IF win_fails THEN prop_busy ELSE ""
    /\ loc' = [loc EXCEPT ![t] = NoLocals[t]]
    /\ GotoTask(t, loc[t].ret, list_remove(busy_tasks, cleanup_task_name))
    /\ UNCHANGED <<now, win, prop_lastexec, db, config, win_ok, exit, env, file, last, written>>

SetCallsConc ==
    {"k1", "k2"} \X {PyInt2} \X {<<>>} \X {TicksPerSecond, DefaultExpiration}

NextConc ==
    \/ \E t \in Threads :
         \/ CcRead(t)
         \/ CcDecide(t)
         \/ DcCheck(t)
         \/ DcSetBusy(t)
         \/ DcSelect(t)
         \/ DcRow(t)
         \/ DcMem(t)
         \/ DcLast(t)
         \/ DcFinally(t)
    \/ \E a \in SetCallsConc : Set(a[1], a[2], a[3], a[4])
    \/ Tick(LongStep)

SpecConc == Init /\ [][NextConc]_vars

SetCallsInit == {"k1"} \X {PyInt2} \X {<<>>} \X {TicksPerSecond}

\* instances are constructed on a window and a file that are in use
NextInit ==
    \/ \E t \in Threads :
         \/ Construct(t)
         \/ CtorReturn(t)
         \/ CcRead(t)
         \/ CcDecide(t)
         \/ DcCheck(t)
         \/ DcSetBusy(t)
         \/ DcSelect(t)
         \/ DcRow(t)
         \/ DcMem(t)
         \/ DcLast(t)
         \/ DcFinally(t)
    \/ \E a \in SetCallsInit : Set(a[1], a[2], a[3], a[4])
    \/ Tick(LongStep)
    \/ HostRestart

SpecInit == Init /\ [][NextInit]_vars

SetCallsCancel == {"k1", "k2"} \X {PyInt2} \X {<<>>} \X {TicksPerSecond}

\* the steps of check_cleanup and _do_cleanup after the first
SweepStep(t) ==
    \/ CcDecide(t)
    \/ DcCheck(t)
    \/ DcSetBusy(t)
    \/ DcSelect(t)
    \/ DcRow(t)
    \/ DcMem(t)
    \/ DcLast(t)
    \/ DcFinally(t)

(***************************************************************************)
(* close() while other threads call set on the instance                    *)
(***************************************************************************)
\* positions of a thread between the append to _busy_tasks and the removal in
\* the finally of its task
TaskLabels == {"set_task", "dc_set", "dc_select", "dc_row", "dc_mem", "dc_last",
               "dc_finally"}

\* the threads between the append of their task and its removal
in_flight == {t \in Threads : pc[t] \in TaskLabels}

\* set, up to self._busy_tasks.append(task_name)
SetBegin(t) ==
    /\ pc[t] = "idle"
    /\ win_ok
    /\ GotoTask(t, "set_task", Append(busy_tasks, set_task_name))
    /\ UNCHANGED <<now, win, prop_busy, prop_lastexec, db, config, win_ok, exit, env,
                   file, last, written, loc>>

\* mutant: set leaves its name in the list
SetEnd_leak(t) ==
    LET reached == set_reaches_db(PyInt2)
        s == set(win, Healed(reached, db), "k1", PyInt2, <<>>, DefaultExpiration)
    IN /\ pc[t] = "set_task"
       /\ win' = s.win
       /\ db' = s.db
       /\ db_file' = FileAfter(reached)
       /\ Goto(t, "idle")
       /\ UNCHANGED <<now, prop_busy, prop_lastexec, config, win_ok, exit, env,
                      file_held, last, written, loc>>

\* set("k1", 2), from the try to the removal of the task in the finally
SetEnd(t) ==
    LET reached == set_reaches_db(PyInt2)
        s == set(win, Healed(reached, db), "k1", PyInt2, <<>>, DefaultExpiration)
    IN /\ pc[t] = "set_task"
       /\ win' = s.win
       /\ db' = s.db
       /\ db_file' = FileAfter(reached)
       /\ GotoTask(t, "idle", list_remove(busy_tasks, set_task_name))
       /\ UNCHANGED <<now, prop_busy, prop_lastexec, config, win_ok, exit, env,
                      file_held, last, written, loc>>

\* close(), or __del__ on an instance that was not closed: self._exit = True
CloseBegin(t) ==
    /\ pc[t] = "idle"
    /\ exit' = TRUE
    /\ Goto(t, "close_wait")
    /\ UNCHANGED <<now, win, prop_busy, prop_lastexec, db, config, win_ok, env, file,
                   last, written, loc>>

\* close(): the loop ends when _busy_tasks is empty, or on a host abort if the
\* instance has its monitor; the window and the monitor are released
CloseEnd(t) ==
    /\ pc[t] = "close_wait"
    /\ busy_tasks = <<>> \/ (win_ok /\ abort)
    /\ win_ok' = FALSE
    /\ Goto(t, "idle")
    /\ UNCHANGED <<now, win, prop_busy, prop_lastexec, db, config, exit, env, file,
                   last, written, loc>>

\* the host asks its add-ons to stop
AbortRequested ==
    /\ ~abort
    /\ abort' = TRUE
    /\ UNCHANGED <<now, win, prop_busy, prop_lastexec, db, config, win_ok, exit,
                   db_fault, win_fault, file, last, written, threads>>

NextClose ==
    \/ \E t \in Threads :
         \/ SetBegin(t)
         \/ SetEnd(t)
         \/ CloseBegin(t)
         \/ CloseEnd(t)
    \/ AbortRequested

\* a task that has begun runs to its end, and the loop of close is left once its
\* condition stays false
SpecClose ==
    /\ Init /\ [][NextClose]_vars
    /\ \A t \in Threads : WF_vars(SetEnd(t)) /\ WF_vars(CloseEnd(t))

(***************************************************************************)
(* A host abort or close() while sweeps run                                *)
(***************************************************************************)
\* the thread that calls close(); the other one only sweeps
Closer == "t2"

NextCancel ==
    \/ \E t \in Threads :
         \/ CcRead(t)
         \/ SweepStep(t)
    \/ CloseBegin(Closer)
    \/ CloseEnd(Closer)
    \/ \E a \in SetCallsCancel : Set(a[1], a[2], a[3], a[4])
    \/ Tick(LongStep)
    \/ AbortRequested

\* a thread that has entered check_cleanup runs on to its return
SpecCancel ==
    /\ Init /\ [][NextCancel]_vars
    /\ \A t \in Threads : WF_vars(SweepStep(t))

(***************************************************************************)
(* sets and sweeps in flight together while one thread closes              *)
(***************************************************************************)
NextBusy ==
    \/ \E t \in Threads :
         \/ CcRead(t)
         \/ SweepStep(t)
         \/ SetBegin(t)
         \/ SetEnd(t)
    \/ CloseBegin(Closer)
    \/ CloseEnd(Closer)
    \/ Tick(LongStep)
    \/ AbortRequested

SpecBusy == Init /\ [][NextBusy]_vars

(***************************************************************************)
(* calls made while close() runs and after it has returned                 *)
(***************************************************************************)
NextClosed ==
    \/ Get("k1", <<>>)
    \/ \E a \in SetCallsCancel : Set(a[1], a[2], a[3], a[4])
    \/ \E k \in Keys : Delete(k)
    \/ CheckCleanup
    \/ CloseBegin(Closer)
    \/ CloseEnd(Closer)
    \/ \E dt \in {1, LongStep} : Tick(dt)

SpecClosed == Init /\ [][NextClosed]_vars

(***************************************************************************)
(* _execute_sql, one turn of its loop at a time, on a file that another     *)
(* connection locks for writing and releases                               *)
(***************************************************************************)
MaxRetries == 10

\* the row written by the statement INSERT OR REPLACE of the calls below
RetryRow == Row("k1", TicksPerSecond, json_dumps(PyInt2), 0)

\* _execute_sql up to the loop: a monitor, a db path and a connection, or None
SqlBegin(t) ==
    /\ pc[t] = "idle"
    /\ loc' = [loc EXCEPT ![t].retries = 0, ![t].result = "none"]
    /\ IF win_ok /\ db_path /\ connects THEN Goto(t, "sql_loop") ELSE UNCHANGED <<pc, busy_tasks, caller>>
    /\ UNCHANGED <<now, win, prop_busy, prop_lastexec, db, config, win_ok, exit, env,
                   file, last, written>>

\* mutant: while True
SqlAttempt_unbounded(t) ==
    /\ pc[t] = "sql_loop"
    /\ IF exit \/ abort
       THEN Goto(t, "idle") /\ UNCHANGED <<db, loc>>
       ELSE IF db_fault
            THEN /\ loc' = [loc EXCEPT ![t].retries = loc[t].retries + 1]
                 /\ Goto(t, "sql_wait")
                 /\ UNCHANGED db
            ELSE /\ db' = insert_or_replace(db, RetryRow)
                 /\ loc' = [loc EXCEPT ![t].result = "cursor"]
                 /\ Goto(t, "idle")
    /\ UNCHANGED <<now, win, prop_busy, prop_lastexec, config, win_ok, exit, env, file,
                   last, written>>

\* one turn of "while retries < max_retries": leave the loop; return None on exit
\* or abort; execute and return the cursor; on "database is locked" count and
\* wait; on any other error return None
SqlAttempt(t) ==
    /\ pc[t] = "sql_loop"
    /\ IF loc[t].retries >= MaxRetries \/ exit \/ abort
       THEN Goto(t, "idle") /\ UNCHANGED <<db, loc>>
       ELSE IF db_fault
            THEN /\ loc' = [loc EXCEPT ![t].retries = loc[t].retries + 1]
                 /\ Goto(t, "sql_wait")
                 /\ UNCHANGED db
            ELSE \E other_error \in BOOLEAN :
                   /\ db' = IF other_error THEN db ELSE insert_or_replace(db, RetryRow)
                   /\ loc' = [loc EXCEPT ![t].result =
                                           IF other_error THEN "none" ELSE "cursor"]
                   /\ Goto(t, "idle")
    /\ UNCHANGED <<now, win, prop_busy, prop_lastexec, config, win_ok, exit, env, file,
                   last, written>>

\* self._monitor.waitForAbort(retry_delay), a tenth of a second
SqlWait(t) ==
    /\ pc[t] = "sql_wait"
    /\ Goto(t, "sql_loop")
    /\ UNCHANGED <<now, win, prop_busy, prop_lastexec, db, config, win_ok, exit, env,
                   file, last, written, loc>>

NextRetry ==
    \/ \E t \in Threads : SqlBegin(t) \/ SqlAttempt(t) \/ SqlWait(t)
    \/ DbFaultChanges
    \/ AbortRequested

\* a thread inside _execute_sql runs on
SpecRetry ==
    /\ Init /\ [][NextRetry]_vars
    /\ \A t \in Threads : WF_vars(SqlAttempt(t)) /\ WF_vars(SqlWait(t))

(***************************************************************************)
(* Texts damaged from outside: a row or a window property that the cache   *)
(* did not write as it stands                                              *)
(***************************************************************************)
\* the data of the row of k is overwritten with a text that is no JSON
RowCorrupted(k) ==
    /\ \E r \in RowsOf(db, k) :
         /\ r.data # Garbage
         /\ db' = (db \ {r}) \cup {[r EXCEPT !.data = Garbage]}
    /\ last' = NoArgs("env")
    /\ UNCHANGED <<now, win, prop_busy, prop_lastexec, config, win_ok, exit, env, file,
                   written, threads>>

\* the window property of k is overwritten: with no JSON, with JSON of the
\* wrong structure, or its entry gets a fourth element
SlotCorrupted(k, kind) ==
    /\ win_ok
    /\ win[k].kind \in {"empty", "json"}
    /\ kind = "long" => win[k].kind = "json"
    /\ win' = [win EXCEPT ![k] = IF kind = "long"
                                 THEN [win[k] EXCEPT !.kind = "long"]
                                 ELSE [EmptyText EXCEPT !.kind = kind]]
    /\ last' = NoArgs("env")
    /\ UNCHANGED <<now, prop_busy, prop_lastexec, db, config, win_ok, exit, env, file,
                   written, threads>>

SetCallsCorrupt ==
    {"k1"} \X {PyInt2} \X SetChecksumStrings \X {TicksPerSecond, DefaultExpiration}

NextCorrupt ==
    \/ \E c \in {<<>>, Str_ab, Str_b} : Get("k1", c)
    \/ \E a \in SetCallsCorrupt : Set(a[1], a[2], a[3], a[4])
    \/ Tick(LongStep)
    \/ RowCorrupted("k1")
    \/ \E kind \in SlotKinds \ {"empty", "json"} : SlotCorrupted("k1", kind)

SpecCorrupt == Init /\ [][NextCorrupt]_vars

(***************************************************************************)
(* The checksum with a salt: global_checksum is set by the calling addon    *)
(***************************************************************************)
\* cache.global_checksum = salt
SaltChanges(salt) ==
    /\ global_checksum # salt
    /\ global_checksum' = salt
    /\ last' = NoArgs("env")
    /\ UNCHANGED <<now, win, prop_busy, prop_lastexec, db, enable_mem_cache, db_path,
                   win_ok, exit, env, file, written, threads>>

\* a call of _get_checksum(stringinput): last holds the input and the result
GetChecksum(stringinput) ==
    /\ last' = Call("_get_checksum", NoKey,
                    [tag |-> "int", items |-> <<get_checksum(stringinput)>>], stringinput)
    /\ UNCHANGED <<now, win, prop_busy, prop_lastexec, db, config, win_ok, exit, env,
                   file, written, threads>>

NextChecksum ==
    \/ \E salt \in {<<>>, Str_ab, Str_b} : SaltChanges(salt)
    \/ \E s \in ChecksumStrings : GetChecksum(s)
    \/ \E a \in SetCallsCorrupt : Set(a[1], a[2], a[3], a[4])
    \/ \E c \in ChecksumStrings : Get("k1", c)

SpecChecksum == Init /\ [][NextChecksum]_vars

(***************************************************************************)
(* check_cleanup on a property that another addon of the host has written: *)
(* Window(10000) is shared by everything that runs in the host             *)
(***************************************************************************)
\* a text of internal.clean.lastexecuted that is not the repr of a datetime
ForgedText == <<-1>>

\* another addon sets the property internal.clean.lastexecuted
PropertyForged ==
    /\ win_ok
    /\ prop_lastexec # ForgedText
    /\ prop_lastexec' = ForgedText
    /\ last' = NoArgs("env")
    /\ UNCHANGED <<now, win, prop_busy, db, config, win_ok, exit, env, file, written,
                   threads>>

\* check_cleanup on such a text: eval(lastexecuted_repr) runs it; either the
\* value compares as due, or the evaluation or the comparison raises and the
\* time is reset, and the sweep runs; or the value compares as not due
CheckCleanupForged ==
    /\ win_ok /\ ~win_fault
    /\ prop_lastexec = ForgedText
    /\ \E due \in BOOLEAN :
         LET x == IF due
                  THEN do_cleanup(win, db, <<now>>)
                  ELSE [win |-> win, db |-> db, lastexec |-> prop_lastexec]
         IN /\ win' = x.win
            /\ db' = x.db
            /\ prop_lastexec' = x.lastexec
    /\ last' = Call("eval", NoKey, PyNone, <<"foreign">>)
    /\ UNCHANGED <<now, prop_busy, config, win_ok, exit, env, file, written, threads>>

\* check_cleanup on a text that the cache wrote itself
CheckCleanupGenuine == prop_lastexec # ForgedText /\ CheckCleanup

NextEval ==
    \/ PropertyForged
    \/ CheckCleanupForged
    \/ CheckCleanupGenuine
    \/ \E a \in SetCallsCorrupt : Set(a[1], a[2], a[3], a[4])
    \/ \E c \in SetChecksumStrings : Get("k1", c)
    \/ Tick(LongStep)

SpecEval == Init /\ [][NextEval]_vars

(***************************************************************************)
(* Two instances in one host process, on the same Window(10000), prefix    *)
(* and db path: the property test of one passed, that of the other failed  *)
(***************************************************************************)
\* the next calls are made through the other instance; enable_mem_cache is an
\* attribute of the instance, all else is shared
OtherInstance ==
    /\ win_ok
    /\ enable_mem_cache' = ~enable_mem_cache
    /\ last' = NoArgs("env")
    /\ UNCHANGED <<now, win, prop_busy, prop_lastexec, db, db_path, global_checksum,
                   win_ok, exit, env, file, written, threads>>

SetCallsShared == {"k1", "k2"} \X {PyList1, PyInt2} \X {<<>>} \X {DefaultExpiration}

NextShared ==
    \/ \E k \in Keys : Get(k, <<>>)
    \/ \E a \in SetCallsShared : Set(a[1], a[2], a[3], a[4])
    \/ \E k \in Keys : Delete(k)
    \/ OtherInstance

SpecShared == Init /\ [][NextShared]_vars

(***************************************************************************)
(* The callers of get: what each does with the value get handed back, as    *)
(* [exc, from]: the exception that leaves the caller, and where the data it *)
(* works on comes from                                                     *)
(***************************************************************************)
\* srgssr.open_url: "if not cache_response" fetches and returns the response;
\* otherwise the value of a second get is returned as it is
open_url(cache_response, second) ==
    IF cache_response = PyNone
    THEN [exc |-> NoExc, from |-> "fresh"]
    ELSE [exc |-> NoExc, from |-> IF second = PyNone THEN "nothing" ELSE "cache"]

\* youtube.get_youtube_channel_ids: "if not channel_ids" reads the channel file
get_youtube_channel_ids(channel_ids) ==
    [exc |-> NoExc, from |-> IF channel_ids = PyNone THEN "fresh" ELSE "cache"]

\* menus.build_specific_date_menu: "for pitem in program_list" on what get
\* returned, with no test before it
build_specific_date_menu(program_list) ==
    IF program_list.tag \in {"list", "tuple"}
    THEN [exc |-> NoExc, from |-> "cache"]
    ELSE [exc |-> "TypeError", from |-> "nothing"]

TokenThresholdDays == 1

\* TOKEN_EXPIRATION_THRESHOLD = timedelta(days=1), in ticks
TokenExpirationThreshold == TokenThresholdDays * 24 * 3600 * TicksPerSecond

RequiredKeys == {"Token", "UserId", "ExpirationDate", "UserName"}

\* a login dict: the credentials whose hash it carries (0: no CredentialsHash),
\* its ExpirationDate in ticks (0: the empty string, -1: a text that is no
\* date), its Token and UserId (0: None), and the keys it has
LoginData(hash, expiration_date, token, keys) ==
    [tag |-> "dict", items |-> <<hash, expiration_date, token>>, keys |-> keys]

\* mutant: a token is reused until the moment it expires
cached_login_valid_late(data) ==
    /\ data.tag = "dict"
    /\ data.items[1] # 0
    /\ data.items[1] = caller.creds
    /\ RequiredKeys \subseteq data.keys
    /\ data.items[2] > 0
    /\ data.items[2] - now > 0

\* main.user_login: the tests that cached login data passes to be reused
cached_login_valid(data) ==
    /\ data.tag = "dict"
    /\ data.items[1] # 0
    /\ data.items[1] = caller.creds
    /\ RequiredKeys \subseteq data.keys
    /\ data.items[2] > 0
    /\ ~(data.items[2] - now <= TokenExpirationThreshold)

\* main.user_login: no data, or data that is not a dict or fails a test, leads
\* to a fresh login
user_login(titlovi_com_login_data) ==
    [exc |-> NoExc,
     from |-> IF cached_login_valid(titlovi_com_login_data) THEN "cache" ELSE "fresh"]

\* main._fetch_search_results: "if result_list is None" queries the API
fetch_search_results(result_list) ==
    [exc |-> NoExc, from |-> IF result_list = PyNone THEN "fresh" ELSE "cache"]

(***************************************************************************)
(* srgssr.open_url, one cache call at a time, while the entry may expire,  *)
(* be deleted or be swept                                                  *)
(***************************************************************************)
OpenUrlHours == 2

\* expiration=datetime.timedelta(hours=2), in ticks
OpenUrlExpiration == OpenUrlHours * 3600 * TicksPerSecond

\* "if not cache_response": None and the empty values are false
falsy(v) == v.tag = "None" \/ v.items = <<>>

\* open_url: cache_response = self.cache.get(...); if not cache_response: ...
OpenUrlLookup(t) ==
    LET reached == get_reaches_db(win, "k1", <<>>)
        g == get(win, Healed(reached, db), "k1", <<>>)
    IN /\ pc[t] = "idle"
       /\ win' = g.win
       /\ db' = db_of_get(win, Healed(reached, db), "k1", <<>>)
       /\ db_file' = FileAfter(reached)
       /\ last' = Call("get", "k1", g.result, g.path)
       /\ Goto(t, IF falsy(g.result) THEN "ou_fetch" ELSE "ou_second")
       /\ UNCHANGED <<now, prop_busy, prop_lastexec, config, win_ok, exit, env,
                      file_held, written, loc>>

\* mutant: the response is cached whether the request succeeded or not
OpenUrlFetch_any(t, ok) ==
    LET reached == set_reaches_db(PyStr_a)
        s == set(win, Healed(reached, db), "k1", PyStr_a, <<>>, OpenUrlExpiration)
    IN /\ pc[t] = "ou_fetch"
       /\ win' = s.win
       /\ db' = s.db
       /\ db_file' = FileAfter(reached)
       /\ written' = IF win_ok /\ ~exit
                     THEN [written EXCEPT
                             !["k1"] = MemText(get_timestamp(now + OpenUrlExpiration, now),
                                               json_dumps(PyStr_a), get_checksum(<<>>))]
                     ELSE written
       /\ last' = Call("open_url", "k1", IF ok THEN PyStr_a ELSE PyStrEmpty,
                       IF ok THEN <<"fresh">> ELSE <<"failed">>)
       /\ Goto(t, "idle")
       /\ UNCHANGED <<now, prop_busy, prop_lastexec, config, win_ok, exit, env,
                      file_held, loc>>

\* open_url: requests.get; a response that is not ok returns ""; otherwise the
\* text is cached for two hours and returned
OpenUrlFetch(t, ok) ==
    LET reached == ok /\ set_reaches_db(PyStr_a)
        s == set(win, Healed(reached, db), "k1", PyStr_a, <<>>, OpenUrlExpiration)
    IN /\ pc[t] = "ou_fetch"
       /\ win' = IF ok THEN s.win ELSE win
       /\ db' = IF ok THEN s.db ELSE db
       /\ db_file' = FileAfter(reached)
       /\ written' = IF ok /\ win_ok /\ ~exit
                     THEN [written EXCEPT
                             !["k1"] = MemText(get_timestamp(now + OpenUrlExpiration, now),
                                               json_dumps(PyStr_a), get_checksum(<<>>))]
                     ELSE written
       /\ last' = Call("open_url", "k1", IF ok THEN PyStr_a ELSE PyStrEmpty,
                       IF ok THEN <<"fresh">> ELSE <<"failed">>)
       /\ Goto(t, "idle")
       /\ UNCHANGED <<now, prop_busy, prop_lastexec, config, win_ok, exit, env,
                      file_held, loc>>

\* open_url: return self.cache.get(...), a second lookup
OpenUrlSecond(t) ==
    LET reached == get_reaches_db(win, "k1", <<>>)
        g == get(win, Healed(reached, db), "k1", <<>>)
    IN /\ pc[t] = "ou_second"
       /\ win' = g.win
       /\ db' = db_of_get(win, Healed(reached, db), "k1", <<>>)
       /\ db_file' = FileAfter(reached)
       /\ last' = Call("open_url", "k1", g.result, <<open_url(PyStr_a, g.result).from>>)
       /\ Goto(t, "idle")
       /\ UNCHANGED <<now, prop_busy, prop_lastexec, config, win_ok, exit, env,
                      file_held, written, loc>>

NextOpenUrl ==
    \/ \E t \in Threads :
         \/ OpenUrlLookup(t)
         \/ \E ok \in BOOLEAN : OpenUrlFetch(t, ok)
         \/ OpenUrlSecond(t)
    \/ Delete("k1")
    \/ CheckCleanup
    \/ \E dt \in {1, LongStep} : Tick(dt)

SpecOpenUrl == Init /\ [][NextOpenUrl]_vars

(***************************************************************************)
(* service.subtitles.titlovi: user_login and _fetch_search_results, with   *)
(* open_url of srgssr on a key of its own                                  *)
(***************************************************************************)
\* the thread of the add-on
Addon == "t1"

LoginKey == "titlovi_com_login_data"

\* params_hash of the search at hand
SearchKey == "k2"

TokenCacheDays == 7

\* TOKEN_CACHE_EXPIRATION = timedelta(days=7), in ticks
TokenCacheExpiration == TokenCacheDays * 24 * 3600 * TicksPerSecond

SearchCacheHours == 8

\* SEARCH_CACHE_EXPIRATION = timedelta(hours=8), in ticks
SearchCacheExpiration == SearchCacheHours * 3600 * TicksPerSecond

PyTrue == [tag |-> "bool", items |-> <<1>>]

PyFalse == [tag |-> "bool", items |-> <<0>>]

PyList0 == [tag |-> "list", items |-> <<>>]

\* the add-on object: the credentials of the settings, login_token and user_id
\* (0: None), what the call at hand has in result_list, and the requests the
\* call at hand has sent; seq changes with every call
TitloviCaller ==
    [name |-> "titlovi", creds |-> 1, login_token |-> 0, user_id |-> 0,
     result |-> PyNone, searches |-> 0, logins |-> 0, seq |-> 0]

\* how long a token that the API issues is good for
LongLifetime == TokenExpirationThreshold + LongStep + 2

ApiLifetimes == {TokenExpirationThreshold, TokenExpirationThreshold + 1, LongLifetime}

\* login data that a writer other than set_login_data has left in the cache
ForeignLogins ==
    {LoginData(1, LongStep + TokenExpirationThreshold + 2, 1, RequiredKeys \ {"UserName"}),
     LoginData(1, LongStep + TokenExpirationThreshold + 2, 0, RequiredKeys \ {"Token"}),
     LoginData(0, LongStep + TokenExpirationThreshold + 2, 1, RequiredKeys),
     LoginData(1, 0, 1, RequiredKeys),
     LoginData(1, -1, 1, RequiredKeys)}

\* the outcomes of requests.get on the search API
SearchResponses ==
    {"results", "no_key", "timeout", "unauthorized", "forbidden", "error", "network", "parse"}

\* what written records after set(k, data, expiration=expiration)
written_after_set(k, data, expiration) ==
    IF win_ok /\ ~exit
    THEN [written EXCEPT
            ![k] = MemText(get_timestamp(now + expiration, now), json_dumps(data),
                           get_checksum(<<>>))]
    ELSE written

\* the user changes username or password in the settings
CredentialsChange ==
    /\ pc[Addon] = "idle"
    /\ caller' = [caller EXCEPT !.creds = 3 - caller.creds]
    /\ UNCHANGED <<now, win, prop_busy, prop_lastexec, db, config, win_ok, exit, env, file,
                   last, written, pc, loc, busy_tasks>>

\* another writer stores login data under the key
ForeignLogin(data) ==
    LET reached == set_reaches_db(data)
        s == set(win, Healed(reached, db), LoginKey, data, <<>>, TokenCacheExpiration)
    IN /\ pc[Addon] = "idle"
       /\ win' = s.win
       /\ db' = s.db
       /\ db_file' = FileAfter(reached)
       /\ written' = written_after_set(LoginKey, data, TokenCacheExpiration)
       /\ last' = Call("set", LoginKey, PyNone, <<"foreign">>)
       /\ UNCHANGED <<now, prop_busy, prop_lastexec, config, win_ok, exit, env,
                      file_held, threads>>

\* user_login: the cached login data is reused when it passes the tests;
\* otherwise _perform_fresh_login: handle_login posts one request, and
\* set_login_data stores what it returned and sets login_token and user_id
UserLogin(ok, lifetime) ==
    LET reached == get_reaches_db(win, LoginKey, <<>>)
        g == get(win, Healed(reached, db), LoginKey, <<>>)
        d == db_of_get(win, Healed(reached, db), LoginKey, <<>>)
        reuse == user_login(g.result).from = "cache"
        login_data == LoginData(caller.creds, now + lifetime, 1, RequiredKeys)
        stores == ~reuse /\ ok
        s == set(g.win, d, LoginKey, login_data, <<>>, TokenCacheExpiration)
    IN /\ pc[Addon] = "idle"
       /\ win' = IF stores THEN s.win ELSE g.win
       /\ db' = IF stores THEN s.db ELSE d
       /\ db_file' = FileAfter(reached \/ (stores /\ set_reaches_db(login_data)))
       /\ written' = IF stores
                     THEN written_after_set(LoginKey, login_data, TokenCacheExpiration)
                     ELSE written
       /\ caller' = [caller EXCEPT
                       !.login_token = IF reuse THEN g.result.items[3]
                                       ELSE IF ok THEN login_data.items[3] ELSE @,
                       !.user_id = IF reuse THEN g.result.items[3]
                                   ELSE IF ok THEN login_data.items[3] ELSE @,
                       !.logins = IF reuse THEN 0 ELSE 1,
                       !.searches = 0,
                       !.seq = 1 - @]
       /\ last' = Call("user_login", LoginKey,
                       IF reuse \/ ok THEN PyTrue ELSE PyFalse,
                       IF reuse THEN <<"cache">> ELSE IF ok THEN <<"fresh">> ELSE <<"failed">>)
       /\ UNCHANGED <<now, prop_busy, prop_lastexec, config, win_ok, exit, env,
                      file_held, pc, loc, busy_tasks>>

\* _fetch_search_results, its end: a result list is stored for eight hours and
\* returned; None is returned and nothing is stored
FsReturn(t, result_list, searches, logins, path) ==
    LET stores == result_list # PyNone
        reached == stores /\ set_reaches_db(result_list)
        s == set(win, Healed(reached, db), SearchKey, result_list, <<>>, SearchCacheExpiration)
    IN /\ win' = IF stores THEN s.win ELSE win
       /\ db' = IF stores THEN s.db ELSE db
       /\ db_file' = FileAfter(reached)
       /\ written' = IF stores
                     THEN written_after_set(SearchKey, result_list, SearchCacheExpiration)
                     ELSE written
       /\ caller' = [caller EXCEPT !.result = result_list, !.searches = searches,
                                   !.logins = logins]
       /\ last' = Call("fetch", SearchKey, result_list, path)
       /\ pc' = [pc EXCEPT ![t] = "idle"]

\* result_list of a response: the list of SubtitleResults, [] when the key is
\* missing, None on every failure
result_of(response) ==
    CASE response = "results" -> PyList1
      [] response = "no_key" -> PyList0
      [] OTHER -> PyNone

\* _fetch_search_results: result_list = addon_cache.get(params_hash); a hit is
\* returned; on a miss without login_token or user_id None is returned
FsLookup(t) ==
    LET reached == get_reaches_db(win, SearchKey, <<>>)
        g == get(win, Healed(reached, db), SearchKey, <<>>)
        hit == g.result # PyNone
        logged_in == caller.login_token # 0 /\ caller.user_id # 0
    IN /\ pc[t] = "idle"
       /\ win' = g.win
       /\ db' = db_of_get(win, Healed(reached, db), SearchKey, <<>>)
       /\ db_file' = FileAfter(reached)
       /\ caller' = [caller EXCEPT !.result = g.result, !.searches = 0, !.logins = 0,
                                   !.seq = 1 - @]
       /\ last' = IF hit THEN Call("fetch", SearchKey, g.result, <<"cache">>)
                  ELSE IF logged_in THEN Call("get", SearchKey, g.result, g.path)
                  ELSE Call("fetch", SearchKey, PyNone, <<"no_login">>)
       /\ pc' = [pc EXCEPT ![t] = IF ~hit /\ logged_in THEN "fs_request" ELSE "idle"]
       /\ UNCHANGED <<now, prop_busy, prop_lastexec, config, win_ok, exit, env,
                      file_held, written, loc, busy_tasks>>

\* _fetch_search_results: requests.get on the search API; 401 leads to the
\* token refresh, every other outcome to the end
FsRequest(t, response) ==
    /\ pc[t] = "fs_request"
    /\ IF response = "unauthorized"
       THEN /\ pc' = [pc EXCEPT ![t] = "fs_login"]
            /\ caller' = [caller EXCEPT !.searches = @ + 1]
            /\ UNCHANGED <<win, db, db_file, written, last>>
       ELSE FsReturn(t, result_of(response), caller.searches + 1, caller.logins,
                     IF result_of(response) = PyNone THEN <<"failed">> ELSE <<"fresh">>)
    /\ UNCHANGED <<now, prop_busy, prop_lastexec, config, win_ok, exit, env,
                   file_held, loc, busy_tasks>>

\* mutant: after a refresh the search goes back to the first request
FsLogin_again(t, ok, lifetime) ==
    /\ pc[t] = "fs_login"
    /\ pc' = [pc EXCEPT ![t] = "fs_request"]
    /\ caller' = [caller EXCEPT !.logins = 0, !.searches = 0]
    /\ UNCHANGED <<now, win, prop_busy, prop_lastexec, db, config, win_ok, exit, env,
                   file, last, written, loc, busy_tasks>>

\* _fetch_search_results on 401: handle_login posts one request; when it
\* returns login data set_login_data stores it and sets login_token and
\* user_id, and the retry follows; otherwise the search ends with None
FsLogin(t, ok, lifetime) ==
    LET login_data == LoginData(caller.creds, now + lifetime, 1, RequiredKeys)
        reached == ok /\ set_reaches_db(login_data)
        s == set(win, Healed(reached, db), LoginKey, login_data, <<>>, TokenCacheExpiration)
    IN /\ pc[t] = "fs_login"
       /\ IF ok
          THEN /\ win' = s.win
               /\ db' = s.db
               /\ db_file' = FileAfter(reached)
               /\ written' = written_after_set(LoginKey, login_data, TokenCacheExpiration)
               /\ caller' = [caller EXCEPT !.login_token = login_data.items[3],
                                           !.user_id = login_data.items[3],
                                           !.logins = @ + 1]
               /\ last' = Call("set", LoginKey, PyNone, <<"refresh">>)
               /\ pc' = [pc EXCEPT ![t] = "fs_retry"]
          ELSE FsReturn(t, PyNone, caller.searches, caller.logins + 1, <<"failed">>)
       /\ UNCHANGED <<now, prop_busy, prop_lastexec, config, win_ok, exit, env,
                      file_held, loc, busy_tasks>>

\* _fetch_search_results: the one retry; whatever it fails with ends the search
FsRetry(t, response) ==
    /\ pc[t] = "fs_retry"
    /\ FsReturn(t, result_of(response), caller.searches + 1, caller.logins,
                IF result_of(response) = PyNone THEN <<"failed">> ELSE <<"retry">>)
    /\ UNCHANGED <<now, prop_busy, prop_lastexec, config, win_ok, exit, env,
                   file_held, loc, busy_tasks>>

\* a call of _fetch_search_results after its first step
FsStep(t) ==
    \/ \E r \in SearchResponses : FsRequest(t, r)
    \/ \E ok \in BOOLEAN : FsLogin(t, ok, LongLifetime)
    \/ \E r \in SearchResponses : FsRetry(t, r)

InitSearch == InitOn(Keys \cup {LoginKey}, TitloviCaller)

NextSearch ==
    \/ \E ok \in BOOLEAN : UserLogin(ok, LongLifetime)
    \/ FsLookup(Addon)
    \/ FsStep(Addon)
    \/ OpenUrlLookup(Addon)
    \/ \E ok \in BOOLEAN : OpenUrlFetch(Addon, ok)
    \/ OpenUrlSecond(Addon)
    \/ \E k \in {"k1", SearchKey} : Delete(k)
    \/ Tick(LongStep)

\* a search that has begun runs on to its return
SpecSearch == InitSearch /\ [][NextSearch]_vars /\ WF_vars(FsStep(Addon))

\* logins with what the user and other writers do in between
NextLogin ==
    \/ \E ok \in BOOLEAN, e \in ApiLifetimes : UserLogin(ok, e)
    \/ \E data \in ForeignLogins : ForeignLogin(data)
    \/ CredentialsChange
    \/ Delete(LoginKey)
    \/ \E dt \in {1, LongStep} : Tick(dt)

SpecLogin == InitSearch /\ [][NextLogin]_vars

(***************************************************************************)
(* use_cache: the decorator around a method of a class with a cache        *)
(***************************************************************************)
CacheDays == 14

\* the strings "A" and "b", with "a" arguments of the decorated method
PyStr_A == [tag |-> "str", items |-> <<65>>]

PyStr_b == [tag |-> "str", items |-> <<98>>]

\* args[1:] of the calls
ArgTuples == {<<PyStr_a>>, <<PyStr_A>>, <<PyStr_b>>, <<PyStr_a, PyStr_b>>}

\* method_class.__class__.__name__ and func.__name__: "C" and "f"
method_class_name == <<67>>

func_name == <<102>>

Str_dot == <<46>>

\* str.lower() on the letters A-Z
lower(str) == [i \in DOMAIN str |-> IF str[i] \in 65..90 THEN str[i] + 32 ELSE str[i]]

RECURSIVE join_items(_)
\* for item in args[1:]: cache_str += f".{item}"
join_items(items) ==
    IF items = <<>> THEN <<>>
    ELSE Str_dot \o Head(items).items \o join_items(Tail(items))

\* the key of a call: class name, method name and the positional arguments,
\* in lower case
cache_str(args) == lower(method_class_name \o Str_dot \o func_name \o join_items(args))

\* the decorated method: one whose result depends on its arguments
method(args) == args[1]

\* the keys the calls can have
UseCacheKeys == {cache_str(args) : args \in ArgTuples}

\* the object with the decorated method: its ignore_cache attribute, the
\* arguments of the last call and how often that call invoked the method; seq
\* changes with every call
UseCacheCaller ==
    [name |-> "use_cache", ignore_cache |-> FALSE, args |-> <<>>, invoked |-> 0, seq |-> 0]

\* what leaves the wrapper of what its two cache calls raise
use_cache_exc(result) ==
    FirstExc(<<Caught(get_exc, Exceptions), Caught(set_exc(result), Exceptions)>>)

\* decorated(*args, **kwargs), with ignore_cache=ignore_cache_flag
UseCache(args, ignore_cache_flag) ==
    LET key == cache_str(args)
        looks == ~ignore_cache_flag /\ ~caller.ignore_cache
        reached == looks /\ get_reaches_db(win, key, <<>>)
        g == get(win, Healed(reached, db), key, <<>>)
        d == IF looks THEN db_of_get(win, Healed(reached, db), key, <<>>) ELSE db
        w == IF looks THEN g.win ELSE win
        cachedata == IF looks /\ get_exc = NoExc THEN g.result ELSE PyNone
        hit == cachedata # PyNone
        result == method(args)
        s == set(w, d, key, result, <<>>, CacheDays * 24 * 3600 * TicksPerSecond)
    IN /\ pc[Addon] = "idle"
       /\ win' = IF hit THEN w ELSE s.win
       /\ db' = IF hit THEN d ELSE s.db
       /\ db_file' = FileAfter(reached \/ (~hit /\ set_reaches_db(result)))
       /\ written' = IF hit THEN written
                     ELSE written_after_set(key, result, CacheDays * 24 * 3600 * TicksPerSecond)
       /\ caller' = [caller EXCEPT !.args = args, !.invoked = IF hit THEN 0 ELSE 1,
                                   !.seq = 1 - @]
       /\ last' = Call("use_cache", key, IF hit THEN cachedata ELSE result,
                       IF hit THEN <<"cache">> ELSE <<"method">>)
       /\ UNCHANGED <<now, prop_busy, prop_lastexec, config, win_ok, exit, env,
                      file_held, pc, loc, busy_tasks>>

\* the ignore_cache attribute of the object is set or cleared
IgnoreCacheChanges ==
    /\ caller' = [caller EXCEPT !.ignore_cache = ~@]
    /\ UNCHANGED <<now, win, prop_busy, prop_lastexec, db, config, win_ok, exit, env, file,
                   last, written, pc, loc, busy_tasks>>

InitUseCache == InitOn(UseCacheKeys, UseCacheCaller)

NextUseCache ==
    \/ \E args \in ArgTuples, flag \in BOOLEAN : UseCache(args, flag)
    \/ IgnoreCacheChanges
    \/ \E k \in UseCacheKeys : Delete(k)
    \/ Tick(LongStep)

SpecUseCache == InitUseCache /\ [][NextUseCache]_vars

(***************************************************************************)
(* storage.StorageManager: the file of the recent searches                 *)
(***************************************************************************)
MaxEntries == 2

MaxStartLen == 3

SearchNames == {"a", "b", "c", "d"}

RECURSIVE no_duplicates(_)
no_duplicates(list) ==
    IF list = <<>> THEN TRUE
    ELSE (\A i \in 2..Len(list) : list[i] # Head(list)) /\ no_duplicates(Tail(list))

\* the lists a file can hold at the start: no entry twice, MaxStartLen at most
StartLists ==
    {l \in UNION {[1..n -> SearchNames] : n \in 0..MaxStartLen} : no_duplicates(l)}

\* json.dump([{"search": entry} for entry in searches], f)
searches_file(searches) ==
    [exists |-> TRUE, entries |-> [i \in DOMAIN searches |-> [search |-> searches[i]]]]

AbsentFile == [exists |-> FALSE, entries |-> <<>>]

\* read_searches: the names of the entries, [] when the file cannot be opened
read_searches(f) ==
    IF f.exists THEN [i \in DOMAIN f.entries |-> f.entries[i].search] ELSE <<>>

\* list.pop(): the last element goes
list_pop(list) == SubSeq(list, 1, Len(list) - 1)

\* mutant: the name is not taken out of the list before it is put in front
write_search_keep(f, name, max_entries) ==
    LET searches == read_searches(f)
        popped == IF Len(searches) >= max_entries THEN list_pop(searches) ELSE searches
    IN searches_file(<<name>> \o popped)

\* write_search(filename, name, max_entries): the file it writes
write_search(f, name, max_entries) ==
    LET searches == read_searches(f)
        removed == list_remove(searches, name)
        popped == IF Len(removed) >= max_entries THEN list_pop(removed) ELSE removed
    IN searches_file(<<name>> \o popped)

\* the plugin: the file of its searches, max_entries of its calls, the list
\* the file held at the start, the names in order of their last use, and
\* whether write_search has been called
SearchCallers ==
    {[name |-> "searches", file |-> f, max_entries |-> m, start |-> read_searches(f),
      used |-> read_searches(f), wrote |-> FALSE] :
       f \in {AbsentFile} \cup {searches_file(l) : l \in StartLists}, m \in 1..MaxEntries}

WriteSearch(name) ==
    /\ caller' = [caller EXCEPT
                    !.file = write_search(caller.file, name, caller.max_entries),
                    !.used = <<name>> \o list_remove(caller.used, name),
                    !.wrote = TRUE]
    /\ UNCHANGED <<now, win, prop_busy, prop_lastexec, db, config, win_ok, exit, env, file,
                   last, written, pc, loc, busy_tasks>>

InitSearches ==
    \E c \in SearchCallers : InitOn(Keys, c)

NextSearches == \E name \in SearchNames : WriteSearch(name)

SpecSearches == InitSearches /\ [][NextSearches]_vars

(***************************************************************************)
(* Properties                                                              *)
(***************************************************************************)
\* the cache got its window at construction and has not been closed
Open == win_ok /\ ~exit

\* a tier is in use
AnyTier == enable_mem_cache \/ db_path

\* the current time as get computes it
CurTime == get_timestamp(now, now)

\* payloads of the JSON types: json.loads(json.dumps(v)) == v
JsonPayloads == {v \in Payloads : json_dumps(v) # TypeError /\ json_loads(json_dumps(v)) = v}

\* entry e is unexpired and passes the checksum gate for the checksum string c
ValidFor(e, c) ==
    /\ e.expires > CurTime
    /\ SumOrd(c) = 0 \/ SumOrd(c) = e.checksum

\* what get(k, c) returns in this state
Returned(k, c) == get(win, db, k, c).result

\* what get(k, c) returns right after the call a of set in this state
ReturnedAfterSet(a, k, c) ==
    get(set(win, db, a[1], a[2], a[3], a[4]).win,
        set(win, db, a[1], a[2], a[3], a[4]).db, k, c).result

\* C1 as stated: for every key k, JSON payload v and expiration d > 0, get(k) right
\* after set(k, v, expiration=d) returns v (on an open cache with a tier in use)
C1_Original ==
    \A a \in SetCalls :
        (Open /\ AnyTier /\ a[2] \in JsonPayloads /\ a[4] > 0)
        => ReturnedAfterSet(a, a[1], <<>>) = a[2]

\* C1, amended: for every key k, JSON payload v and expiration d of at least one
\* second with now + d in the range of time.mktime, on an open cache with a tier
\* in use, get(k) right after set(k, v, expiration=d) returns v
C1_SetThenGet ==
    \A a \in SetCalls :
        (Open /\ AnyTier /\ a[2] \in JsonPayloads /\ a[4] >= TicksPerSecond
           /\ (now + a[4]) \div TicksPerSecond <= MaxMktime)
        => ReturnedAfterSet(a, a[1], <<>>) = a[2]

\* a set has just written an unexpired entry and get returns its payload
C1_Witness ==
    /\ last.op = "set" /\ Open /\ AnyTier
    /\ written[last.key].kind = "json" /\ written[last.key].expires > CurTime
    /\ Returned(last.key, <<>>) \in JsonPayloads

\* C2: in every state reached, get(k, c) returns a payload only if a tier holds
\* an entry of k with that payload whose expires_at is later than the current
\* time and whose checksum passes the gate; the entry of a set with a zero or
\* negative expiration, and an entry whose expiration has passed, are absent
C2_OnlyValidEntries ==
    /\ \A k \in Keys, c \in ChecksumStrings :
         Returned(k, c) # PyNone
         => \E e \in EntriesOf(k) : ValidFor(e, c) /\ json_loads(e.data) = Returned(k, c)
    /\ \A k \in Keys, c \in ChecksumStrings :
         (written[k].kind = "json" /\ written[k].expires <= CurTime)
         => Returned(k, c) = PyNone
    /\ \A a \in SetCalls, c \in ChecksumStrings :
         a[4] <= 0 => ReturnedAfterSet(a, a[1], c) = PyNone

\* a get reports absent a key whose expired entry is still stored
C2_Witness ==
    /\ last.op = "get" /\ last.ret = PyNone /\ Open
    /\ written[last.key].kind = "json" /\ written[last.key].expires <= CurTime
    /\ EntriesOf(last.key) # {}

\* C3: each tier holds at most one entry per key, every entry held for k is the
\* one the last set of k wrote, and while that entry is unexpired get(k) returns
\* its payload (open cache, a tier in use)
C3_LastWriteWins ==
    \A k \in Keys :
        /\ Cardinality(RowsOf(db, k)) <= 1
        /\ \A e \in EntriesOf(k) : e = written[k]
        /\ (Open /\ AnyTier /\ written[k].kind = "json" /\ written[k].expires > CurTime)
           => Returned(k, <<>>) = json_loads(written[k].data)

\* a set has just replaced an entry of its key and get returns the new payload
C3_Witness ==
    /\ last.op = "set" /\ last.path = <<"replace">> /\ Open
    /\ written[last.key].kind = "json" /\ written[last.key].expires > CurTime
    /\ Returned(last.key, <<>>) = json_loads(written[last.key].data)

\* C4 as stated: after set(k, v, checksum=A), get(k, checksum=B) is absent for
\* every string B other than A, and get(k, checksum=A) returns v
C4_Original ==
    \A a \in SetCalls, B \in ChecksumStrings :
        (Open /\ AnyTier /\ a[2] \in JsonPayloads /\ a[4] = DefaultExpiration)
        => ReturnedAfterSet(a, a[1], B) = IF B = a[3] THEN a[2] ELSE PyNone

\* C4, amended: after set(k, v, checksum=A), get(k, checksum=B) is absent for
\* every B whose checksum is not 0 and differs from the checksum of A, and it
\* returns v for every other B: A itself, the empty string, a string with the
\* same sum of code points
C4_ChecksumGate ==
    \A a \in SetCalls, B \in ChecksumStrings :
        (Open /\ AnyTier /\ a[2] \in JsonPayloads /\ a[4] = DefaultExpiration)
        => ReturnedAfterSet(a, a[1], B) =
              IF SumOrd(B) = 0 \/ SumOrd(B) = SumOrd(a[3]) THEN a[2] ELSE PyNone

\* a get is refused by the checksum gate: the entry of its key is unexpired
C4_Witness ==
    /\ last.op = "get" /\ last.ret = PyNone /\ Open /\ AnyTier
    /\ written[last.key].kind = "json" /\ written[last.key].expires > CurTime
    /\ written[last.key].checksum # 0

\* C5: once delete(k) has returned on an initialised cache, no tier holds an
\* entry of k, and get(k) is absent until the next set of k
C5_DeleteRemoves ==
    \A k \in Keys :
        /\ (last.op = "delete" /\ last.key = k /\ win_ok) => EntriesOf(k) = {}
        /\ written[k].kind = "empty"
           => /\ EntriesOf(k) = {}
              /\ \A c \in ChecksumStrings : Returned(k, c) = PyNone

\* a delete has just removed an entry that both tiers held
C5_Witness ==
    /\ last.op = "delete" /\ last.path = <<"present">> /\ win_ok
    /\ enable_mem_cache /\ db_path
    /\ EntriesOf(last.key) = {}

\* C6: delete(k) of a key that was never set, or was deleted, changes no entry of
\* any key in any tier; a second delete(k) changes nothing after the first; and
\* a delete touches no other key
C6_DeleteIdempotent ==
    \A k \in Keys :
        LET once == delete(win, db, k)
        IN /\ written[k].kind = "empty" => once = [win |-> win, db |-> db]
           /\ delete(once.win, once.db, k) = once
           /\ \A j \in Keys \ {k} :
                once.win[j] = win[j] /\ RowsOf(once.db, j) = RowsOf(db, j)

\* a delete of a key without entry has run while the other key has an entry
C6_Witness ==
    /\ last.op = "delete" /\ last.path = <<"absent">> /\ win_ok
    /\ written[last.key].kind = "empty"
    /\ \E j \in Keys \ {last.key} : RowsOf(db, j) # {} /\ win[j].kind = "json"

\* C7: after a completed sweep, every entry whose expires_at has passed is absent
\* for get, its row is gone once expires_at is earlier than the current time,
\* and every unexpired entry is still returned by get with its payload
C7_SweepCorrect ==
    (last.op = "check_cleanup" /\ last.path = <<"sweep">>)
    => \A k \in Keys :
          written[k].kind = "json"
          => /\ written[k].expires <= CurTime
                => \A c \in ChecksumStrings : Returned(k, c) = PyNone
             /\ written[k].expires < CurTime => RowsOf(db, k) = {}
             /\ (written[k].expires > CurTime /\ AnyTier)
                => Returned(k, <<>>) = json_loads(written[k].data)

\* a sweep has removed the expired row of one key and kept the unexpired other
C7_Witness ==
    /\ last.op = "check_cleanup" /\ last.path = <<"sweep">> /\ db_path
    /\ \E k, j \in Keys :
         /\ written[k].kind = "json" /\ written[k].expires < CurTime
         /\ RowsOf(db, k) = {}
         /\ written[j].kind = "json" /\ written[j].expires > CurTime
         /\ Returned(j, <<>>) = json_loads(written[j].data)

\* C9: on an initialised cache get consults the window properties first when the
\* memory cache is enabled, consults the table exactly when that lookup yields
\* nothing (also when the memory cache is disabled), and returns absent exactly
\* when neither tier holds a valid entry
C9_TierOrder ==
    \A k \in Keys, c \in ChecksumStrings :
        win_ok
        => LET memhit == enable_mem_cache /\ win[k].kind = "json" /\ ValidFor(win[k], c)
               dbhit == db_path /\ \E r \in RowsOf(db, k) : ValidFor(r, c)
               g == get(win, db, k, c)
           IN /\ g.path = (IF enable_mem_cache THEN <<"mem">> ELSE <<>>)
                            \o (IF memhit THEN <<>> ELSE <<"db">>)
              /\ g.result = PyNone <=> (~memhit /\ ~dbhit)

\* a get has missed in the window properties and hit in the table
C9_Witness ==
    /\ last.op = "get" /\ last.path = <<"mem", "db">> /\ last.ret # PyNone

\* C8 as stated: of the threads that run check_cleanup on the same window and
\* table, at most one at a time is past the busy check, enumerating and deleting
\* rows
C8_SweepMutex ==
    Cardinality({t \in Threads : pc[t] \in {"dc_select", "dc_row"}}) <= 1

\* C10: on an open cache set writes the row whenever the table is configured and
\* its statement runs, whether the memory cache is enabled or its write fails,
\* and writes the window property whenever the memory cache is enabled and the
\* window works, whether or not the table write fails
C10_IndependentWrites ==
    \A a \in SetCallsFault :
        LET s == set(win, db, a[1], a[2], a[3], a[4])
            expires == (now + a[4]) \div TicksPerSecond
        IN (Open /\ json_dumps(a[2]) # TypeError)
           => /\ (db_path /\ ~db_fault /\ ~abort)
                 => RowsOf(s.db, a[1])
                      = {Row(a[1], expires, json_dumps(a[2]), SumOrd(a[3]))}
              /\ (enable_mem_cache /\ ~win_fault)
                 => s.win[a[1]] = MemText(expires, json_dumps(a[2]), SumOrd(a[3]))

\* a set has written the row although the write of the window property failed
C10_Witness ==
    /\ last.op = "set" /\ last.path = <<"new">> /\ Open
    /\ enable_mem_cache /\ db_path /\ win_fault /\ ~db_fault
    /\ win[last.key].kind = "empty"
    /\ RowsOf(db, last.key) # {}

\* C11: with the window raising or the backing file failing, get, set and delete
\* raise nothing to the caller; a tier that fails is left as it was by set and
\* delete, and get returns absent when every tier in use fails
C11_NoRaise ==
    /\ get_exc = NoExc /\ delete_exc = NoExc
    /\ \A a \in SetCallsFault :
         LET s == set(win, db, a[1], a[2], a[3], a[4])
         IN /\ set_exc(a[2]) = NoExc
            /\ db_fault => s.db = db
            /\ win_fault => s.win = win
    /\ \A k \in Keys :
         /\ db_fault => delete(win, db, k).db = db
         /\ win_fault => delete(win, db, k).win = win
         /\ ((win_fault \/ ~enable_mem_cache) /\ (db_fault \/ ~db_path))
            => Returned(k, <<>>) = PyNone

\* a get is absent for a key whose entry is stored in both tiers, both failing
C11_Witness ==
    /\ last.op = "get" /\ last.ret = PyNone /\ Open
    /\ win_fault /\ db_fault /\ enable_mem_cache /\ db_path
    /\ win[last.key].kind = "json" /\ win[last.key].expires > CurTime
    /\ RowsOf(db, last.key) # {}

\* C12 as stated: set with a payload that cannot be serialized raises to its
\* caller (open cache, a tier in use)
C12_MisusePropagates ==
    \A a \in SetCalls :
        (Open /\ AnyTier /\ json_dumps(a[2]) = TypeError) => set_exc(a[2]) # NoExc

\* the table after get(k, c), after the call a of set, after delete(k)
db_after_get(k, c) == db_of_get(win, Healed(get_reaches_db(win, k, c), db), k, c)

db_after_set(a) == set(win, Healed(set_reaches_db(a[2]), db), a[1], a[2], a[3], a[4]).db

db_after_delete(k) == delete(win, Healed(delete_reaches_db, db), k).db

\* C13 as stated: while the backing file is well or locked by other connections,
\* a get, set or delete on key k leaves the rows of every other key as they were
C13_OtherKeysKept ==
    db_file \in {"ok", "locked"}
    => \A k \in Keys, j \in Keys :
         j # k
         => /\ RowsOf(db_after_get(k, <<>>), j) = RowsOf(db, j)
            /\ RowsOf(db_after_delete(k), j) = RowsOf(db, j)
            /\ \A a \in SetCallsHeal :
                 a[1] = k => RowsOf(db_after_set(a), j) = RowsOf(db, j)

\* C14: with the backing file missing or no database any more, get and set raise
\* nothing; when the file can be deleted (or is not there) the call leaves a new
\* file with an empty table, to which set writes its row, and get(k) after
\* set(k, v) returns v
C14_SelfHealing ==
    /\ get_exc = NoExc
    /\ \A a \in SetCallsHeal : set_exc(a[2]) = NoExc
    /\ (Open /\ db_path /\ db_file \in {"missing", "corrupt"} /\ (db_file = "missing" \/ ~file_held))
       => /\ \A k \in Keys :
               get_reaches_db(win, k, <<>>)
               => db_after_get(k, <<>>) = {} /\ FileAfter(TRUE) = "ok"
          /\ \A a \in SetCallsHeal :
               /\ db_after_set(a)
                    = {Row(a[1], (now + a[4]) \div TicksPerSecond, json_dumps(a[2]), 0)}
               /\ get(set(win, {}, a[1], a[2], a[3], a[4]).win, db_after_set(a),
                      a[1], <<>>).result = a[2]

\* a set has met a file that was no database, has recreated it and written its row
C14_Witness ==
    /\ last.op = "set" /\ last.path = <<"new", "recreated">> /\ Open
    /\ db_file = "ok" /\ ~enable_mem_cache
    /\ Returned(last.key, <<>>) = PyInt2

\* C15 as stated: a close() that has begun to wait returns, also while other
\* threads have tasks in flight
C15_CloseTerminates ==
    \A t \in Threads : (pc[t] = "close_wait") ~> (pc[t] = "idle")

\* C16 as stated: while a sweep that a constructor has triggered is in progress,
\* the constructor can return
C16_Deferred ==
    \A t \in Threads :
        (loc[t].ret = "init_ret" /\ pc[t] \in TaskLabels) => ENABLED CtorReturn(t)

\* C17: once the host abort flag or the exit flag of the instance is raised, no
\* step deletes or writes a row, so the deletions made before stay and the rows
\* not yet reached are intact; and every sweep in progress comes to its end
C17_Cancellable ==
    /\ [][(abort \/ exit) => db' = db]_vars
    /\ (abort \/ exit) ~> (busy_tasks = <<>>)

\* a sweep has deleted one expired row, the flag was raised, and the sweep is in
\* its finally with the other expired row still in the table
C17_Witness ==
    /\ (abort \/ exit)
    /\ \E t \in Threads :
         /\ pc[t] = "dc_finally" /\ loc[t].todo # {}
         /\ \E r \in loc[t].todo : r \in db /\ r.expires < CurTime
    /\ \E k \in Keys : written[k].kind = "json" /\ RowsOf(db, k) = {}

\* the positions of a thread inside _do_cleanup past its busy test
SweepLabels == TaskLabels \ {"set_task"}

C20_AbsentMeansRefetch ==
    \A k \in Keys :
        (win_ok /\ written[k].kind = "json" /\ Returned(k, <<>>) = PyNone)
        => \A r \in {open_url(Returned(k, <<>>), Returned(k, <<>>)),
                     get_youtube_channel_ids(Returned(k, <<>>)),
                     build_specific_date_menu(Returned(k, <<>>)),
                     user_login(Returned(k, <<>>)),
                     fetch_search_results(Returned(k, <<>>))} :
              r.exc = NoExc /\ r.from = "fresh"

\* C21 as stated: with two instances on one window and one table, a get through
\* either returns for its key the payload of the latest set made through
\* either, and absent after a delete made through either: no set or delete is
\* masked by an older window property
C21_NeverMasked ==
    (last.op = "get" /\ win_ok /\ db_path)
    => IF written[last.key].kind = "empty"
       THEN last.ret = PyNone
       ELSE last.ret = json_loads(written[last.key].data)

\* C22: a call of _execute_sql counts at most 10 failures on "database is
\* locked" and executes nothing after the tenth; it returns a cursor only when
\* the statement was executed, otherwise None; and every call returns
C22_BoundedRetry ==
    /\ [](\A t \in Threads :
            /\ loc[t].retries <= MaxRetries
            /\ loc[t].result = "cursor" => (RetryRow \in db /\ loc[t].retries < MaxRetries)
            /\ (pc[t] = "idle" /\ loc[t].retries = MaxRetries) => loc[t].result = "none")
    /\ \A t \in Threads : (pc[t] \in {"sql_loop", "sql_wait"}) ~> (pc[t] = "idle")

\* one call has given up after ten locked attempts and left the table as it
\* was, another has succeeded after failed attempts
C22_Witness ==
    \E t, u \in Threads :
        /\ pc[t] = "idle" /\ loc[t].retries = MaxRetries /\ loc[t].result = "none"
        /\ pc[u] = "idle" /\ loc[u].retries \in 1..(MaxRetries - 1)
        /\ loc[u].result = "cursor"

\* C23: when get(k, c) misses in the enabled window properties and hits a row
\* of the table, the window property of k becomes the text of that row's
\* expires, data and checksum, and a get(k, c) that follows is answered from
\* the window property alone with the same value
C23_Promotion ==
    \A k \in Keys, c \in ChecksumStrings :
        LET g == get(win, db, k, c)
            h == get(g.win, db, k, c)
        IN (enable_mem_cache /\ g.path = <<"mem", "db">> /\ g.result # PyNone)
           => /\ \E r \in RowsOf(db, k) : g.win[k] = MemText(r.expires, r.data, r.checksum)
              /\ h.path = <<"mem">> /\ h.result = g.result /\ h.win = g.win

\* a get has just missed in the window properties, hit in the table and left
\* the copy of the row in the window property
C23_Witness ==
    /\ last.op = "get" /\ last.path = <<"mem", "db">> /\ last.ret # PyNone
    /\ \E r \in RowsOf(db, last.key) :
         win[last.key] = MemText(r.expires, r.data, r.checksum)

\* C24: a get leaves the table as it is, also when it misses because the
\* checksum of the row differs or the row is expired; the row of a key goes
\* away only in a delete or in a sweep
C24_NoEagerRemoval ==
    /\ [][last'.op = "get" => db' = db]_vars
    /\ [][(\E k \in Keys : RowsOf(db, k) # {} /\ RowsOf(db', k) = {})
          => last'.op \in {"delete", "check_cleanup"}]_vars

\* a get has missed on an unexpired row whose checksum differs from the one
\* asked for, and the row is still in the table
C24_Witness ==
    /\ win_ok /\ db_path /\ ~exit
    /\ last.op = "get" /\ last.ret = PyNone /\ last.path # <<>>
    /\ \E r \in RowsOf(db, last.key) : r.expires > CurTime /\ r.checksum # 0

\* the row of k holds data that json.loads rejects
CorruptRow(k) == \E r \in RowsOf(db, k) : json_loads(r.data) = ValueError

\* the window property of k holds a text that the cache did not write
DamagedSlot(k) == win[k].kind \notin {"empty", "json"}

\* C25 as stated: a get never returns a damaged entry; a get that goes to the
\* table deletes the row of its key when the data of that row fails to
\* deserialize; and a window property that fails to deserialize, or is no
\* sequence of three elements, is cleared and passed over
C25_PurgedOnRead ==
    \A k \in Keys, c \in ChecksumStrings :
        LET g == get(win, db, k, c)
        IN /\ g.result # ValueError
           /\ (Open /\ db_path /\ CorruptRow(k) /\ get_reaches_db(win, k, c))
              => RowsOf(db_of_get(win, db, k, c), k) = {}
           /\ (Open /\ enable_mem_cache /\ DamagedSlot(k))
              => g.win[k].kind \in {"empty", "json"}

\* C25: a get never returns a damaged entry; a get that goes to the table
\* deletes the row of its key, and clears the window property, exactly when the
\* data fails to deserialize and the row is unexpired and passes the checksum
\* test, otherwise the damaged row stays; a window property that is no JSON or
\* has not the structure is cleared and the table is consulted; a list of four
\* elements is used as an entry
C25_CorruptHandled ==
    \A k \in Keys, c \in ChecksumStrings :
        LET g == get(win, db, k, c)
            d == db_of_get(win, db, k, c)
        IN /\ g.result # ValueError
           /\ (CorruptRow(k) /\ g.result # PyNone) => g.path = <<"mem">>
           /\ (Open /\ db_path /\ CorruptRow(k) /\ get_reaches_db(win, k, c))
              => IF \E r \in RowsOf(db, k) : ValidFor(r, c)
                 THEN /\ d = delete_row(db, k)
                      /\ g.result = PyNone
                      /\ enable_mem_cache => g.win[k] = EmptyText
                 ELSE d = db
           /\ (Open /\ enable_mem_cache /\ win[k].kind \in {"garbage", "short"})
              => g.win[k].kind \in {"empty", "json"} /\ g.path = <<"mem", "db">>
           /\ (Open /\ enable_mem_cache /\ win[k].kind = "long" /\ ValidFor(win[k], c))
              => g.win = win /\ g.result = json_loads(win[k].data)

\* a get has deleted the unexpired row that a set wrote and that was damaged
\* afterwards
C25_Witness ==
    /\ win_ok /\ db_path /\ last.op = "get" /\ last.ret = PyNone
    /\ \E k \in Keys :
         /\ last.key = k /\ written[k].kind = "json" /\ written[k].expires > CurTime
         /\ RowsOf(db, k) = {}

\* C26 as stated: a sweep deletes the row and clears the window property of
\* every key whose row has expired, and leaves the row and the window property
\* of every unexpired key as they were
C26_OnlyExpired ==
    (sweeps /\ db_path)
    => LET x == check_cleanup(win, db, prop_lastexec)
       IN \A r \in db :
            IF r.expires < CurTime
            THEN RowsOf(x.db, r.id) = {} /\ x.win[r.id] = EmptyText
            ELSE RowsOf(x.db, r.id) = RowsOf(db, r.id) /\ x.win[r.id] = win[r.id]

\* C26: a sweep deletes every row whose expires lies before the current second
\* and leaves every other row as it was; it clears the window property of
\* every key that has a row, expired or not, and of no other key
C26_SweepEffect ==
    (sweeps /\ db_path)
    => LET x == check_cleanup(win, db, prop_lastexec)
       IN /\ x.db = {r \in db : r.expires >= CurTime}
          /\ \A k \in Keys :
               x.win[k] = IF RowsOf(db, k) # {} THEN EmptyText ELSE win[k]

\* a sweep has deleted the expired row of one key, kept the unexpired row of
\* the other and cleared the window property of that other key
C26_Witness ==
    /\ last.op = "check_cleanup" /\ last.path = <<"sweep">>
    /\ db_path /\ enable_mem_cache
    /\ \E k, j \in Keys :
         /\ written[j].kind = "json" /\ written[j].expires < CurTime /\ RowsOf(db, j) = {}
         /\ \E r \in RowsOf(db, k) : r.expires > CurTime
         /\ win[k] = EmptyText

\* C27 as stated: the time of the last sweep is written only by the step of a
\* sweep that comes after its deletions, its VACUUM and the clearing of the
\* window properties; apart from that it changes only when the host restarts
C27_RecordedLast ==
    [][prop_lastexec' # prop_lastexec
       => \/ prop_lastexec' = <<>>
          \/ \E t \in Threads : pc[t] = "dc_last" /\ pc'[t] = "dc_finally"]_vars

\* C28 as stated: _get_checksum(s) is 0 when s and the salt are both empty, and
\* otherwise the sum of the code points of the salt followed by s
C28_SaltConcat ==
    /\ \A s \in ChecksumStrings :
         get_checksum(s) = IF s = <<>> /\ global_checksum = <<>>
                           THEN 0
                           ELSE SumOrd(global_checksum) + SumOrd(s)
    /\ last.op = "_get_checksum"
       => last.ret.items[1] = SumOrd(global_checksum) + SumOrd(last.path)

\* C28: _get_checksum(s) is a function of s and the salt: 0 when both are
\* empty; the sum of the code points of s when there is no salt; with a salt,
\* the sum of the code points of the salt, of "-" (45) and of s
C28_SaltHyphen ==
    /\ \A s \in ChecksumStrings :
         get_checksum(s) = IF global_checksum = <<>>
                           THEN SumOrd(s)
                           ELSE SumOrd(global_checksum) + Str_hyphen[1] + SumOrd(s)
    /\ last.op = "_get_checksum"
       => /\ last.ret.tag = "int"
          /\ last.ret.items[1] = SumOrd(last.path)
                + (IF global_checksum = <<>> THEN 0
                   ELSE SumOrd(global_checksum) + Str_hyphen[1])

\* _get_checksum was called with a non-empty string while a salt is set
C28_Witness ==
    /\ last.op = "_get_checksum" /\ last.path # <<>> /\ global_checksum # <<>>
    /\ last.ret.items[1] > SumOrd(global_checksum) + SumOrd(last.path)

\* C29 as stated: with a db path configured, every unexpired entry in the
\* window properties is the copy of the row of its key, with the same expires,
\* data and checksum, so that get returns nothing but what the table holds
C29_LocalIsCopy ==
    \A k \in Keys :
        (db_path /\ win[k].kind = "json" /\ win[k].expires > CurTime)
        => \E r \in RowsOf(db, k) : win[k] = MemText(r.expires, r.data, r.checksum)

\* C30 as stated: no operation of the cache runs as code a text it has read
\* back from a window property or from the table
C30_NoEval == last.op # "eval"

\* C31 as stated: a sweep that runs at the same time as set destroys no live
\* entry: while the latest set of key k is unexpired, the row it wrote is in
\* the table
C31_LiveRowKept ==
    \A k \in Keys :
        (win_ok /\ db_path /\ written[k].kind = "json" /\ written[k].expires > CurTime)
        => \E r \in RowsOf(db, k) : r.expires = written[k].expires

RECURSIVE list_count(_, _)
list_count(list, name) ==
    IF list = <<>> THEN 0
    ELSE (IF Head(list) = name THEN 1 ELSE 0) + list_count(Tail(list), name)

\* C33: _busy_tasks holds one name for each set and each sweep in flight and no
\* other: a task removes its own name on every way out, so the list is empty
\* whenever no task is in flight, and the loop of close() then ends
C33_BusyAccounting ==
    /\ list_count(busy_tasks, set_task_name)
         = Cardinality({t \in Threads : pc[t] = "set_task"})
    /\ list_count(busy_tasks, cleanup_task_name)
         = Cardinality({t \in Threads : pc[t] \in SweepLabels})
    /\ Len(busy_tasks) = Cardinality(in_flight)
    /\ in_flight = {} => busy_tasks = <<>>
    /\ \A t \in Threads : (pc[t] = "close_wait" /\ in_flight = {}) => ENABLED CloseEnd(t)

\* a set and a sweep have run to their ends and close() waits on an empty list
C33_Witness ==
    /\ pc[Closer] = "close_wait" /\ in_flight = {} /\ busy_tasks = <<>>
    /\ win_ok /\ db_path /\ RowsOf(db, "k1") # {}
    /\ prop_lastexec # <<>> /\ prop_lastexec[1] > 0

\* C34: on an instance without its window (close() has returned, or __init__
\* failed) get returns absent and no call changes the window properties or the
\* table; a set made once the exit flag is raised writes to neither
C34_ClosedFrame ==
    /\ [](~win_ok =>
            /\ \A k \in Keys, c \in ChecksumStrings :
                 get(win, db, k, c) = [result |-> PyNone, win |-> win, path |-> <<>>]
            /\ \A k \in Keys : delete(win, db, k) = [win |-> win, db |-> db]
            /\ check_cleanup(win, db, prop_lastexec)
                 = [win |-> win, db |-> db, lastexec |-> prop_lastexec])
    /\ []((~win_ok \/ exit) =>
            \A a \in SetCalls : set(win, db, a[1], a[2], a[3], a[4]) = [win |-> win, db |-> db])
    /\ [][~win_ok => (win' = win /\ db' = db /\ db_file' = db_file)]_vars
    /\ [][(exit /\ last'.op = "set" /\ last' # last)
            => (win' = win /\ db' = db /\ db_file' = db_file)]_vars

\* close() has returned on an instance that holds k1 in both tiers, and the get
\* made since has returned absent
C34_Witness ==
    /\ ~win_ok /\ exit /\ pc[Closer] = "idle"
    /\ enable_mem_cache /\ db_path
    /\ win["k1"].kind = "json" /\ RowsOf(db, "k1") # {}
    /\ written["k1"].kind = "json" /\ written["k1"].expires > CurTime
    /\ last.op = "get" /\ last.ret = PyNone

\* C35 as stated: open_url(url, use_cache=True) returns a string whatever
\* happens to the entry between its two lookups: the cached text, the fetched
\* text or "", never absent
C35_ReturnsString ==
    last.op = "open_url" => last.ret.tag = "str"

\* C36: only what a request brought back is cached.  The entry of open_url is
\* written only by an open_url whose response was ok, the entry of the search
\* only by a _fetch_search_results whose request or retry gave a result list,
\* and then it is that list; a call that fails writes no entry; a search
\* answered from the cache sends no request
C36_OnlySuccessCached ==
    /\ [][(written'["k1"] # written["k1"] /\ written'["k1"].kind = "json")
            => (last'.op = "open_url" /\ last'.path = <<"fresh">>
                /\ written'["k1"].data = json_dumps(last'.ret))]_vars
    /\ [][(written'[SearchKey] # written[SearchKey] /\ written'[SearchKey].kind = "json")
            => (last'.op = "fetch" /\ last'.path \in {<<"fresh">>, <<"retry">>}
                /\ last'.ret.tag = "list"
                /\ written'[SearchKey].data = json_dumps(last'.ret)
                /\ caller'.searches \in 1..2)]_vars
    /\ [][(last'.op \in {"fetch", "open_url"} /\ last'.path = <<"failed">>)
            => (written' = written
                /\ \A k \in {"k1", SearchKey} :
                     win'[k] = win[k] /\ RowsOf(db', k) = RowsOf(db, k))]_vars
    /\ [][(caller'.seq # caller.seq /\ last'.op = "fetch" /\ last'.path = <<"cache">>)
            => (caller'.searches = 0 /\ caller'.logins = 0 /\ written' = written
                /\ pc'[Addon] = "idle" /\ last'.ret = Returned(SearchKey, <<>>))]_vars

\* a search has failed in its retry after a refresh and has left no entry,
\* while the refreshed login data and the text of an open_url are cached
C36_Witness ==
    /\ last.op = "fetch" /\ last.path = <<"failed">>
    /\ caller.searches = 2 /\ caller.logins = 1
    /\ win_ok /\ db_path /\ enable_mem_cache
    /\ EntriesOf(SearchKey) = {}
    /\ written[LoginKey].kind = "json" /\ written["k1"].kind = "json"

\* C37: user_login reuses the cached login data exactly when it is a mapping
\* that carries the hash of the current credentials, has Token, UserId,
\* ExpirationDate and UserName, and expires more than a day from now; in every
\* other case it sends a fresh login; it returns True only with login_token
\* and user_id taken from the reused data or from the data of the fresh login,
\* which is then what the cache holds
C37_ReuseOnlyValid ==
    [][(caller'.seq # caller.seq /\ last'.op = "user_login")
        => LET data == Returned(LoginKey, <<>>)
               reusable == /\ data.tag = "dict"
                           /\ data.items[1] = caller.creds
                           /\ {"Token", "UserId", "ExpirationDate", "UserName"} \subseteq data.keys
                           /\ data.items[2] > now + 24 * 3600 * TicksPerSecond
           IN /\ (last'.path = <<"cache">>) <=> reusable
              /\ caller'.logins = IF reusable THEN 0 ELSE 1
              /\ last'.ret = PyTrue
                   => IF reusable
                      THEN /\ caller'.login_token = data.items[3]
                           /\ caller'.user_id = data.items[3]
                           /\ written' = written
                      ELSE /\ caller'.login_token = 1 /\ caller'.user_id = 1
                           /\ win_ok => /\ written'[LoginKey].kind = "json"
                                        /\ written'[LoginKey].data.items[1] = caller.creds
                                        /\ written'[LoginKey].data.items[3] = 1
                                        /\ written'[LoginKey].data.keys = RequiredKeys
              /\ last'.ret # PyTrue
                   => /\ last'.ret = PyFalse /\ ~reusable /\ written' = written
                      /\ caller'.login_token = caller.login_token]_vars

\* a login has been answered from the cache hours after the data was stored,
\* with the credentials the user has set since the add-on started
C37_Witness ==
    /\ last.op = "user_login" /\ last.path = <<"cache">> /\ last.ret = PyTrue
    /\ now >= LongStep /\ caller.creds = 2 /\ caller.login_token = 1
    /\ written[LoginKey].kind = "json"

\* C38: a call of _fetch_search_results sends at most two search requests and
\* one login request: a 401 on the first request leads to one refresh and one
\* retry, and whatever the retry fails with ends the call; the retry is sent
\* only after the refreshed login data has been stored in the cache and taken
\* into login_token and user_id; every call returns
C38_BoundedRetry ==
    /\ [](caller.searches <= 2 /\ caller.logins <= 1)
    /\ [](pc[Addon] = "fs_request" => (caller.searches = 0 /\ caller.logins = 0))
    /\ [](pc[Addon] = "fs_login" => (caller.searches = 1 /\ caller.logins = 0))
    /\ [](pc[Addon] = "fs_retry"
            => /\ caller.searches = 1 /\ caller.logins = 1
               /\ caller.login_token = 1 /\ caller.user_id = 1
               /\ win_ok => /\ written[LoginKey].kind = "json"
                            /\ written[LoginKey].data.items[1] = caller.creds
                            /\ written[LoginKey].data.items[3] = caller.login_token
               /\ (win_ok /\ AnyTier) => Returned(LoginKey, <<>>).tag = "dict")
    /\ [][(pc[Addon] = "fs_login" => pc'[Addon] \in {"fs_login", "fs_retry", "idle"})
          /\ (pc[Addon] = "fs_retry" => pc'[Addon] \in {"fs_retry", "idle"})]_vars
    /\ (pc[Addon] \in {"fs_request", "fs_login", "fs_retry"}) ~> (pc[Addon] = "idle")

\* a search has got its list from the retry that followed a refresh
C38_Witness ==
    /\ last.op = "fetch" /\ last.path = <<"retry">> /\ last.ret = PyList1
    /\ caller.searches = 2 /\ caller.logins = 1
    /\ win_ok /\ db_path /\ RowsOf(db, SearchKey) # {} /\ RowsOf(db, LoginKey) # {}

\* what the wrapper does with its key: a hit, looked for only when neither
\* flag is set, is returned without a call of the method; otherwise the method
\* is called once and its result stored under the key and returned
UseCacheBehaviour ==
    [][(last'.op = "use_cache" /\ caller'.seq # caller.seq)
        => LET key == cache_str(caller'.args)
           IN /\ last'.key = key
              /\ use_cache_exc(method(caller'.args)) = NoExc
              /\ IF ~caller.ignore_cache /\ Returned(key, <<>>) # PyNone
                 THEN last'.path = <<"method">>
                      \/ (last'.ret = Returned(key, <<>>) /\ caller'.invoked = 0
                          /\ written' = written)
                 ELSE /\ last'.path = <<"method">> /\ caller'.invoked = 1
                      /\ last'.ret = method(caller'.args)
              /\ last'.path = <<"method">>
                   => /\ caller'.invoked = 1 /\ last'.ret = method(caller'.args)
                      /\ Open => /\ written'[key].data = json_dumps(last'.ret)
                                 /\ written'[key].expires
                                      = get_timestamp(now + DefaultExpiration, now)]_vars

\* C39 as stated: two calls whose results differ never share a key, so what
\* the wrapper returns for its arguments, from the cache or from the method,
\* is what the method returns for them
C39_NeverSharedKey ==
    last.op = "use_cache" => last.ret = method(caller.args)

\* the file holds no name twice, the name written last comes first, and the
\* names stand in the order of their last use, none left out before the end
RecentFirst ==
    LET searches == read_searches(caller.file)
    IN /\ no_duplicates(searches)
       /\ Len(searches) <= Len(caller.used)
       /\ searches = SubSeq(caller.used, 1, Len(searches))
       /\ caller.wrote => (caller.file.exists /\ searches # <<>> /\ searches[1] = caller.used[1])

\* C40 as stated: after any sequence of write_search with one max_entries >= 1
\* on a file that was absent or held no name twice, the list holds no name
\* twice, at most max_entries names, the most recent first and the others in
\* the order of their last use
C40_AtMostMaxEntries ==
    /\ RecentFirst
    /\ caller.wrote => Len(read_searches(caller.file)) <= caller.max_entries

\* C40: as stated when the file at the start held at most max_entries names;
\* a longer file keeps the order of last use and never grows: a write of a new
\* name leaves its length, a write of a name it holds makes it one name
\* shorter, and in both the name used longest ago goes; it does not get
\* shorter than max_entries names
C40_RecentSearches ==
    /\ []RecentFirst
    /\ []((Len(caller.start) <= caller.max_entries)
           => (Len(read_searches(caller.file)) <= caller.max_entries))
    /\ []((Len(caller.start) > caller.max_entries /\ caller.wrote)
           => (Len(read_searches(caller.file)) \in caller.max_entries..Len(caller.start)))
    /\ [][(Len(read_searches(caller.file'))< Len(read_searches(caller.file)))
            => (/\ Len(read_searches(caller.file)) > caller.max_entries
                /\ Len(read_searches(caller.file')) = Len(read_searches(caller.file)) - 1)]_vars

\* a full list has taken a new name and dropped the one used longest ago
C40_Witness ==
    /\ caller.max_entries = 2 /\ Len(caller.start) = 2
    /\ Len(caller.used) = 4
    /\ Len(read_searches(caller.file)) = 2
    /\ read_searches(caller.file)[2] # caller.start[1]
====
